---- MODULE Spec2Model ----
(***************************************************************************)
(* A model of the HGW (hack / grow / weaken) scripts of the repository:    *)
(*   - PservHGW.launch_batch, PservHGW.hgw_action and PservHGW.prep_wg     *)
(*     (src/src/chain/misc.js, the part that is /quack/lib/pserv.js),      *)
(*   - prep and hgw_action of the botnet proto-batcher                     *)
(*     (src/src/sleeve/money.js, the part that is hgw/go.js),              *)
(*   - the constants of hgw (src/src/lib/io.js),                           *)
(*   - descend and descend_naive of the triangle script                    *)
(*     (src/unnamed/part_000),                                             *)
(*   - purchase_augmentations and purchase_aug, and the part that is       *)
(*     singularity/program.js (src/07/lib/singularity.augmentation.js),    *)
(*   - the part of src/src/sleeve/money.js that is sleeve/money.js,        *)
(*   - main of chain/misc.js (src/src/chain/misc.js),                      *)
(*   - singularity/home.js and the part that is singularity/daemon.js      *)
(*     (src/src/singularity/home.js),                                      *)
(*   - singularity/money.js (src/src/singularity/money.js),                *)
(*   - kill-script.js (src/src/kill-script.js).                            *)
(*                                                                         *)
(* Units.  Time is counted in ticks, TicksPerMs ticks to the millisecond,  *)
(* so that durations returned by the game need not be whole milliseconds   *)
(* and Math.floor is a real conversion.  Security is counted in            *)
(* thousandths of a security level (0.002 is 2, 0.004 is 4, 0.05 is 50).   *)
(* RAM is counted in units of 0.05 GB (1.75 GB is 35, 1.70 GB is 34).      *)
(* Money is an abstract level 0..MaxMoney.                                 *)
(***************************************************************************)
EXTENDS Integers, Sequences, FiniteSets, TLC

VARIABLES
    sec,        \* ns.getServerSecurityLevel(target)
    money,      \* ns.getServerMoneyAvailable(target)
    free,       \* free RAM of every worker host
    running,    \* the HGW processes in flight (started by ns.exec)
    batch,      \* what the last call of PservHGW.launch_batch did
    wg,         \* the position of PservHGW.prep_wg
    bot,        \* the position of prep (botnet)
    admin,      \* the servers on which gain_admin_access succeeds
    triangle,   \* the triangle given to descend or descend_naive
    answer,     \* what descend or descend_naive returned
    catalog,    \* the Augmentations of the game: prerequisites and prices
    installed,  \* ns.singularity.getOwnedAugmentations(false)
    owned,      \* ns.singularity.getOwnedAugmentations(true)
    bought,     \* the Augmentations purchased, in the order of purchase
    pa,         \* the position of purchase_augmentations
    market,     \* money, reputation and the NeuroFlux Governor's price
    nfgseen,    \* what the game held at each purchase of the Governor
    sleeve,     \* sleeve/money.js: its position, the sleeves and their stats
    chain,      \* chain/misc.js: its position and the scripts on home
    daemon,     \* singularity/daemon.js: its position and what it acts on
    prog,       \* singularity/program.js: its position, money and programs
    kill,       \* kill-script.js: its argument, the servers, what it did
    upg,        \* choose_upgrade: the home server and what it returned
    homejs,     \* singularity/home.js: its position and what main did
    moneyjs     \* singularity/money.js: its position and what main did

\* The variables of the HGW scripts and those of the triangle script.
hgw_vars == <<sec, money, free, running, batch, wg, bot, admin>>
triangle_vars == <<triangle, answer>>

aug_vars == <<catalog, installed, owned, bought, pa, market, nfgseen>>

vars == <<hgw_vars, triangle_vars, aug_vars, sleeve, chain, daemon, prog,
          kill, upg, homejs, moneyjs>>

\* What the HGW scripts leave alone.
not_hgw == <<admin, triangle_vars, aug_vars, sleeve, chain, daemon, prog,
             kill, upg, homejs, moneyjs>>
\* What a change of the servers that can be nuked leaves alone.
not_admin == <<sec, money, free, running, batch, wg, bot, triangle_vars,
               aug_vars, sleeve, chain, daemon, prog, kill, upg, homejs,
               moneyjs>>
\* What the triangle script leaves alone.
not_triangle == <<hgw_vars, aug_vars, sleeve, chain, daemon, prog, kill,
                  upg, homejs, moneyjs>>
\* What the Augmentation functions leave alone.
not_aug == <<hgw_vars, triangle_vars, sleeve, chain, daemon, prog, kill,
             upg, homejs, moneyjs>>
\* What sleeve/money.js leaves alone.
not_sleeve == <<hgw_vars, triangle_vars, aug_vars, chain, daemon, prog, kill,
                upg, homejs, moneyjs>>
\* What chain/misc.js leaves alone.
not_chain == <<hgw_vars, triangle_vars, aug_vars, sleeve, daemon, prog, kill,
               upg, homejs, moneyjs>>
\* What singularity/daemon.js leaves alone.
not_daemon == <<hgw_vars, triangle_vars, aug_vars, sleeve, chain, prog, kill,
                upg, homejs, moneyjs>>
\* What singularity/program.js leaves alone.
not_prog == <<hgw_vars, triangle_vars, aug_vars, sleeve, chain, daemon, kill,
              upg, homejs, moneyjs>>
\* What kill-script.js leaves alone.
not_kill == <<hgw_vars, triangle_vars, aug_vars, sleeve, chain, daemon, prog,
              upg, homejs, moneyjs>>
\* What choose_upgrade leaves alone.
not_upg == <<hgw_vars, triangle_vars, aug_vars, sleeve, chain, daemon, prog,
             kill, homejs, moneyjs>>
\* What singularity/home.js leaves alone.
not_home == <<hgw_vars, triangle_vars, aug_vars, sleeve, chain, daemon, prog,
              kill, upg, moneyjs>>
\* What singularity/money.js leaves alone.
not_money == <<hgw_vars, triangle_vars, aug_vars, sleeve, chain, daemon, prog,
               kill, upg, homejs>>

\* No function of the triangle script has been called.
NoAnswer == [by |-> "none", path |-> <<>>, sum |-> 0]
TriangleIdle == triangle = <<>> /\ answer = NoAnswer

\* purchase_augmentations has not been called: pa.pc is where it is
\* suspended, pa.todo the keys of its map augment, pa.cur the Augmentation
\* it has chosen, pa.prereq the keys of its map prereq and pa.stack the
\* calls of purchase_aug in progress, each with its Augmentation and the
\* keys of its map prereq.
NoPurchase == [pc |-> "start", todo |-> {}, cur |-> 0, prereq |-> {},
               stack |-> <<>>]
\* The game as the loop of the NeuroFlux Governor reads it, in halves of a
\* dollar and of a reputation point: the money on home, the price of the
\* next level, the reputation with the faction and the reputation the next
\* level requires.
NoMarket == [money |-> 0, price |-> 0, rep |-> 0, req |-> 0]
AugIdle ==
    /\ catalog = [prereq |-> <<>>, price |-> <<>>]
    /\ installed = {}
    /\ owned = {}
    /\ bought = <<>>
    /\ pa = NoPurchase
    /\ market = NoMarket
    /\ nfgseen = <<>>

\* The other scripts have not been started.
Idle == [pc |-> "idle"]
SleeveIdle == sleeve = Idle
ChainIdle == chain = Idle
DaemonIdle == daemon = Idle
ProgIdle == prog = Idle
KillIdle == kill = Idle
UpgIdle == upg = Idle
HomeIdle == homejs = Idle
MoneyIdle == moneyjs = Idle
ScriptsIdle ==
    /\ SleeveIdle /\ ChainIdle /\ DaemonIdle /\ ProgIdle /\ KillIdle
    /\ UpgIdle /\ HomeIdle /\ MoneyIdle

----------------------------------------------------------------------------
(* Bounds of the model. *)

\* Resolution of time: ticks in one millisecond.
TicksPerMs == 2
\* Largest number of hack threads the game's analysis asks for.
MaxHack == 2
\* RAM of the purchased server, in units of 0.05 GB.
PservRam == 140
\* RAM of the larger botnet server, in units of 0.05 GB.
BotRam == 40
\* Minimum security of the target, in thousandths.
MinSec == 1000
\* How far above its minimum the security of the target can be, counted in
\* effects of one hack thread (0.002).
SecSpan == 30
\* ns.getServerMaxMoney(target), as a level.
MaxMoney == 2

----------------------------------------------------------------------------
(* Constants of hgw, src/src/lib/io.js. *)

\* hgw.pbatch.DELAY, in milliseconds.
DELAY == 250
\* hgw.pbatch.INVALID_NUM_THREAD.
INVALID_NUM_THREAD == -1
\* hgw.security.HACK, GROW, WEAKEN in thousandths of a security level.
SECURITY_HACK == 2
SECURITY_GROW == 4
SECURITY_WEAKEN == 50

\* hgw.action
ACTION_GROW == "grow"
ACTION_HACK == "hack"
ACTION_WEAKEN == "weaken"
\* hgw.script
SCRIPT_GROW == "/quack/hgw/grow.js"
SCRIPT_HACK == "/quack/hgw/hack.js"
SCRIPT_WEAKEN == "/quack/hgw/weaken.js"

\* bool.SUCCESS and bool.FAILURE, src/08/lib/constant/bool.js.
SUCCESS == TRUE
FAILURE == FALSE

----------------------------------------------------------------------------
(* Arithmetic. *)

Min(a, b) == IF a <= b THEN a ELSE b
Max(a, b) == IF a >= b THEN a ELSE b
\* n milliseconds, in ticks.
Ms(n) == n * TicksPerMs
\* Math.floor of a time of t ticks: whole milliseconds, rounded down.
Floor(t) == t \div TicksPerMs
\* Math.ceil(a / b) for b > 0.
CeilDiv(a, b) == (a + b - 1) \div b

----------------------------------------------------------------------------
(* The worker hosts and the game's interface. *)

phost == "pserv"
Hosts == {phost, "b1", "b2", "b3"}
\* network(ns), as the proto-batcher sees it: every server that can be
\* reached from home, home left out, the purchased server among them and
\* first.
hgw_network == <<phost, "b1", "b2", "b3">>

\* nuke_servers(ns): the servers of network(ns) on which gain_admin_access
\* succeeds, in the order of network(ns); ok is the set of these servers.
\* None is taken out for being a purchased server.
nuke_servers(ok) ==
    LET gain_admin_access(h) == h \in ok
    IN  SelectSeq(hgw_network, gain_admin_access)

\* ns.getServerMaxRam(host)
MaxRamOf(h) == IF h = phost THEN PservRam
               ELSE IF h = "b1" THEN BotRam
               ELSE IF h = "b2" THEN BotRam \div 2 ELSE 2 * BotRam

\* ns.getScriptRam(script): 1.70 GB for hack.js, 1.75 GB for grow.js and weaken.js.
ScriptRam(s) == IF s = SCRIPT_HACK THEN 34 ELSE 35

\* The number of threads of script s that fit in ram units of free RAM.
num_threads(ram, s) == IF ram < 1 THEN 0 ELSE ram \div ScriptRam(s)

\* Whether at least one thread of script s fits in ram units of free RAM.
can_run_script(ram, s) == num_threads(ram, s) >= 1

Pids(run) == {p.pid : p \in run}

\* The process ID ns.exec gives to a new process: positive and held by no one.
NewPid(run, held) ==
    CHOOSE p \in 1..(Cardinality(run) + 2) :
        /\ p \notin Pids(run) \cup {held}
        /\ \A q \in 1..(p - 1) : q \in Pids(run) \cup {held}

\* ns.isRunning(pid)
isRunning(run, pid) == pid \in Pids(run)

\* ns.exec(script, host, threads, ...) in world w = [free, running]: the world
\* after the call and the PID returned, 0 when the process was not started.
\* The PID is new: it is not the one PservHGW.hgw_action is waiting for.
ns_exec(w, script, host, threads, owner) ==
    LET cost == ScriptRam(script) * threads
        pid == NewPid(w.running, wg.pid)
    IN  IF threads >= 1 /\ cost <= w.free[host]
        THEN [free |-> [w.free EXCEPT ![host] = @ - cost],
              running |-> w.running \cup
                  {[pid |-> pid, host |-> host, script |-> script,
                    threads |-> threads, owner |-> owner]},
              pid |-> pid]
        ELSE [free |-> w.free, running |-> w.running, pid |-> 0]

\* The highest security of the target.
MaxSec == MinSec + SecSpan * SECURITY_HACK

\* The effect on the target's security of a finished process.
SecAfter(s, p) ==
    IF p.script = SCRIPT_WEAKEN
    THEN Max(MinSec, s - SECURITY_WEAKEN * p.threads)
    ELSE IF p.script = SCRIPT_GROW
    THEN Min(MaxSec, s + SECURITY_GROW * p.threads)
    ELSE Min(MaxSec, s + SECURITY_HACK * p.threads)

\* The effect on the target's money of a finished process.
MoneyAfter(m, p) ==
    IF p.script = SCRIPT_GROW THEN Min(MaxMoney, m + p.threads)
    ELSE IF p.script = SCRIPT_HACK THEN Max(0, m - p.threads)
    ELSE m

\* A process in flight ends: the game gives its RAM back to the host and,
\* unless it belongs to a scheduler of another target, its effect lands on
\* the target.
Finish ==
    \E p \in running :
        /\ running' = running \ {p}
        /\ free' = [free EXCEPT ![p.host] = @ + ScriptRam(p.script) * p.threads]
        /\ sec' = IF p.owner = "other" THEN sec ELSE SecAfter(sec, p)
        /\ money' = IF p.owner = "other" THEN money ELSE MoneyAfter(money, p)
        /\ UNCHANGED <<batch, wg, bot, not_hgw>>

\* A scheduler of another target gets to the purchased server before the
\* HGW scripts have a process in flight and starts a process there, taking
\* some or all of its RAM.
OtherExec ==
    /\ running = {}
    /\ \E n \in {1, num_threads(free[phost], SCRIPT_WEAKEN)} :
        /\ n >= 1
        /\ LET w == ns_exec([free |-> free, running |-> running],
                            SCRIPT_WEAKEN, phost, n, "other")
           IN  /\ free' = w.free
               /\ running' = w.running
    /\ UNCHANGED <<sec, money, batch, wg, bot, not_hgw>>

----------------------------------------------------------------------------
(* hgw_script, has_max_money, has_min_security. *)

hgw_script(action) ==
    IF action = ACTION_GROW THEN SCRIPT_GROW ELSE SCRIPT_WEAKEN

\* has_max_money with > for >=.
has_max_money_strict(m) == m > MaxMoney

has_max_money(m) == m >= MaxMoney

\* has_min_security with < for <=.
has_min_security_strict(s) == s < MinSec

has_min_security(s) == s <= MinSec

----------------------------------------------------------------------------
(* The thread planner of a batch. *)

\* pbatch_num_hthreads: the number of hack threads of a batch on a host where
\* cap hack threads fit, when the game's analysis asks for want threads.
pbatch_num_hthreads(cap, want) ==
    IF cap < 1 \/ want < 1 THEN INVALID_NUM_THREAD ELSE Min(want, cap)

\* pbatch_parameters with the weaken threads sized for the hack threads only.
pbatch_parameters_hack_only(h, g, tw, tg, th) ==
    [hack |-> [thread |-> h, time |-> th],
     grow |-> [thread |-> g, time |-> tg],
     weaken |-> [thread |-> CeilDiv(SECURITY_HACK * h, SECURITY_WEAKEN),
                 time |-> tw]]

\* pbatch_parameters: threads and times of the three actions of a batch with
\* h hack threads, when the game's analysis asks for g grow threads.
pbatch_parameters(h, g, tw, tg, th) ==
    [hack |-> [thread |-> h, time |-> th],
     grow |-> [thread |-> g, time |-> tg],
     weaken |-> [thread |->
                    CeilDiv(SECURITY_HACK * h + SECURITY_GROW * g, SECURITY_WEAKEN),
                 time |-> tw]]

\* ns.getHackTime(target): the predicted durations of a hack the game
\* returns, in ticks.  The game predicts for a grow 3.2 times and for a
\* weaken 4 times the duration of a hack of the same target, so that the
\* three durations of a plan are never chosen apart: with two ticks to the
\* millisecond the hack takes 100, 312.5, 315 or 1000 ms.
HackTimes == {5 * u : u \in {40, 125, 126, 400}}
\* ns.getGrowTime(target), for the target whose hack takes th.
getGrowTime(th) == (16 * th) \div 5
\* ns.getWeakenTime(target), for the target whose hack takes th.
getWeakenTime(th) == 4 * th
\* The numbers of grow threads the game's analysis asks for.
GrowThreads == {1, 13}

----------------------------------------------------------------------------
(* PservHGW.launch_batch *)

NoParam == pbatch_parameters(0, 0, 0, 0, 0)

\* batch.snap is what the last call of launch_batch observed: the RAM free
\* on the purchased server and what the game answered about the target
\* (hack threads asked for, grow threads asked for, duration of a hack).
\* batch.again tells whether the call before the last one observed the
\* same.
NoSnap == [ram |-> 0, want |-> 0, g |-> 0, th |-> 0]
NoBatch == [called |-> FALSE, ret |-> FAILURE, hthread |-> 0,
            param |-> NoParam, calls |-> <<>>, snap |-> NoSnap,
            again |-> FALSE]

\* No call of the HGW scripts has been made.
HgwIdle ==
    /\ sec = MinSec
    /\ money = MaxMoney
    /\ free = [h \in Hosts |-> MaxRamOf(h)]
    /\ running = {}
    /\ batch = NoBatch
    /\ wg = [pc |-> "start", step |-> "none", pid |-> 0,
             first |-> TRUE, disp |-> FALSE]
    /\ bot = [pc |-> "start", step |-> "none", first |-> TRUE, disp |-> FALSE,
              botnet |-> <<>>]
    /\ admin = Hosts

\* wait_g of a batch that follows a launched batch made longer by DELAY: the
\* object remembers that it has launched a batch.
batch_wait_g_after_batch(param) ==
    LET wait_g == param.weaken.time - Ms(DELAY) - param.grow.time
    IN  (IF Floor(wait_g) <= 0 THEN Ms(DELAY) ELSE wait_g)
        + (IF batch.ret = SUCCESS THEN Ms(DELAY) ELSE 0)

\* let wait_g, with its correction when it is not positive.
batch_wait_g(param) ==
    LET wait_g == param.weaken.time - Ms(DELAY) - param.grow.time
    IN  IF Floor(wait_g) <= 0 THEN Ms(DELAY) ELSE wait_g

\* const wait_h
batch_wait_h(param) == param.grow.time - Ms(DELAY) - param.hack.time

\* The three calls of exec with hack fired wait_h after now instead of
\* wait_h after grow.
batch_calls_hack_early(param) ==
    <<[script |-> SCRIPT_WEAKEN, thread |-> param.weaken.thread, time |-> 0],
      [script |-> SCRIPT_GROW, thread |-> param.grow.thread,
       time |-> batch_wait_g(param)],
      [script |-> SCRIPT_HACK, thread |-> param.hack.thread,
       time |-> batch_wait_h(param)]>>

\* The three calls of exec of launch_batch, in order: script, threads, time.
batch_calls(param) ==
    <<[script |-> SCRIPT_WEAKEN, thread |-> param.weaken.thread, time |-> 0],
      [script |-> SCRIPT_GROW, thread |-> param.grow.thread,
       time |-> batch_wait_g(param)],
      [script |-> SCRIPT_HACK, thread |-> param.hack.thread,
       time |-> batch_wait_g(param) + batch_wait_h(param)]>>

\* The world after the first n calls of exec of a batch.
RECURSIVE batch_exec(_, _, _)
batch_exec(w, calls, n) ==
    IF n = 0 THEN [free |-> w.free, running |-> w.running, pids |-> <<>>]
    ELSE LET prev == batch_exec(w, calls, n - 1)
             c == calls[n]
             next == ns_exec(prev, c.script, phost, c.thread, "batch")
         IN  [free |-> next.free, running |-> next.running,
              pids |-> Append(prev.pids, next.pid)]

\* The result of an exec call: the call and the PID it returned.
batch_outcome(calls, pids) ==
    [i \in 1..3 |->
        [script |-> calls[i].script, thread |-> calls[i].thread,
         time |-> calls[i].time, pid |-> pids[i]]]

\* launch_batch without its test of the number of hack threads.
launch_batch_result_unguarded(hthread, g, tw, tg, th) ==
    LET param == pbatch_parameters(hthread, g, tw, tg, th)
        calls == batch_calls(param)
        w == batch_exec([free |-> free, running |-> running], calls, 3)
    IN  [ret |-> SUCCESS, param |-> param,
         calls |-> batch_outcome(calls, w.pids),
         free |-> w.free, running |-> w.running]

\* What launch_batch returns and does with hthread hack threads planned:
\* [ret, param, calls, free, running].
launch_batch_result(hthread, g, tw, tg, th) ==
    IF hthread = INVALID_NUM_THREAD
    THEN [ret |-> FAILURE, param |-> NoParam, calls |-> <<>>,
          free |-> free, running |-> running]
    ELSE LET param == pbatch_parameters(hthread, g, tw, tg, th)
             calls == batch_calls(param)
             w == batch_exec([free |-> free, running |-> running], calls, 3)
         IN  [ret |-> SUCCESS, param |-> param,
              calls |-> batch_outcome(calls, w.pids),
              free |-> w.free, running |-> w.running]

\* The caller launches a batch when the batch before it has completed.
BatchComplete == \A p \in running : p.owner # "batch"

launch_batch ==
    \E want \in 0..MaxHack, g \in GrowThreads, th \in HackTimes :
        /\ BatchComplete
        /\ LET hthread ==
                   pbatch_num_hthreads(num_threads(free[phost], SCRIPT_HACK), want)
               r == launch_batch_result(hthread, g, getWeakenTime(th),
                                        getGrowTime(th), th)
               snap == [ram |-> free[phost], want |-> want, g |-> g,
                        th |-> th]
           IN  /\ batch' = [called |-> TRUE, ret |-> r.ret, hthread |-> hthread,
                            param |-> r.param, calls |-> r.calls,
                            snap |-> snap,
                            again |-> batch.called /\ batch.snap = snap]
               /\ free' = r.free
               /\ running' = r.running
        /\ UNCHANGED <<sec, money, wg, bot, not_hgw>>

----------------------------------------------------------------------------
(* PservHGW.hgw_action and PservHGW.prep_wg.                               *)
(*                                                                         *)
(* wg.pc is where prep_wg is suspended: "start" before its first pass,     *)
(* "sleep" in ns.sleep(time) of hgw_action, "poll" in its                  *)
(* ns.sleep(wait_t.SECOND), "yield" in ns.sleep(0) at the end of a pass,   *)
(* "done" after its return.  wg.step is the action hgw_action is waiting   *)
(* for, wg.pid its PID.  wg.first tells the first pass from the later      *)
(* ones and wg.disp whether prep_wg has started a process.  The code       *)
(* between two suspensions runs to completion: it is one step.             *)

WgStart == [pc |-> "start", step |-> "none", pid |-> 0,
            first |-> TRUE, disp |-> FALSE]

\* The number of threads that fit in the RAM the purchased server had when
\* the object was made, not in the RAM that is free now.
PservHGW_nthread_cached(ram, s) == num_threads(PservRam, s)

\* const nthread = num_threads(this.#ns, s, this.#phost)
PservHGW_nthread(ram, s) == num_threads(ram, s)

\* hgw_action from ns.exec to ns.sleep(time).
WgDispatch(action) ==
    LET s == hgw_script(action)
        w == ns_exec([free |-> free, running |-> running], s, phost,
                     PservHGW_nthread(free[phost], s), "wg")
    IN  /\ free' = w.free
        /\ running' = w.running
        /\ wg' = [pc |-> "sleep", step |-> action, pid |-> w.pid,
                  first |-> wg.first, disp |-> TRUE]

\* The test that ends prep_wg with only the security looked at.
prep_wg_is_done_security_only(s, m) == has_min_security(s)

\* has_min_security(host) && has_max_money(host) at the end of a pass.
prep_wg_is_done(s, m) == has_min_security(s) /\ has_max_money(m)

\* The end of a pass: return, or ns.sleep(0).
WgFinal ==
    /\ wg' = IF prep_wg_is_done(sec, money)
             THEN [pc |-> "done", step |-> "none", pid |-> 0,
                   first |-> wg.first, disp |-> wg.disp]
             ELSE [pc |-> "yield", step |-> "none", pid |-> 0,
                   first |-> FALSE, disp |-> wg.disp]
    /\ UNCHANGED <<free, running>>

\* The grow step of a pass; hgw_action returns at once when the script
\* cannot run on the purchased server.
WgGrowStep ==
    IF ~has_max_money(money) /\ can_run_script(free[phost], SCRIPT_GROW)
    THEN WgDispatch(ACTION_GROW)
    ELSE WgFinal

\* The weaken step of a pass.
WgWeakenStep ==
    IF ~has_min_security(sec) /\ can_run_script(free[phost], SCRIPT_WEAKEN)
    THEN WgDispatch(ACTION_WEAKEN)
    ELSE WgGrowStep

\* prep_wg from the top of its loop to its next suspension or its return.
prep_wg ==
    /\ wg.pc \in {"start", "yield"}
    /\ WgWeakenStep
    /\ UNCHANGED <<sec, money, batch, bot, not_hgw>>

\* hgw_action wakes from ns.sleep: it sleeps again while its process is
\* running, else it returns and prep_wg goes on to its next suspension.
PservHGW_hgw_action ==
    /\ wg.pc \in {"sleep", "poll"}
    /\ IF isRunning(running, wg.pid)
       THEN /\ wg' = [wg EXCEPT !.pc = "poll"]
            /\ UNCHANGED <<free, running>>
       ELSE IF wg.step = ACTION_WEAKEN THEN WgGrowStep ELSE WgFinal
    /\ UNCHANGED <<sec, money, batch, bot, not_hgw>>

----------------------------------------------------------------------------
(* hgw_action and prep of the botnet proto-batcher.                        *)
(*                                                                         *)
(* bot.pc is where prep is suspended: "start", "sleep" in ns.sleep(time)   *)
(* of hgw_action, "yield" in ns.sleep(1) at the end of a pass, "done"      *)
(* after its loop.  admin is the set of servers on which                   *)
(* gain_admin_access succeeds: the purchased server, where we have root    *)
(* access, and the world servers that are or can now be nuked.  bot.botnet *)
(* is const botnet of the pass: nuke_servers is called anew at the top of  *)
(* every pass, and both actions of the pass use what it returned.          *)

BotStart == [pc |-> "start", step |-> "none", first |-> TRUE, disp |-> FALSE,
             botnet |-> <<>>]

\* What admin can be when prep is called.
AdminSets == {Hosts \ {"b3"}, Hosts}

\* The player becomes able to open the ports of one more world server:
\* from now on gain_admin_access succeeds on it.
AdminGained ==
    /\ \E h \in Hosts \ admin : admin' = admin \cup {h}
    /\ UNCHANGED not_admin

\* const nthread = num_threads(ns, script, s)
hgw_action_nthread(ram, s) == num_threads(ram, s)

\* One turn of forEach with no filter: exec is called for server h in the
\* world prev the turns before it have left.
botnet_exec_turn_unfiltered(prev, s, h) ==
    LET nthread == hgw_action_nthread(prev.free[h], s)
        next == ns_exec(prev, s, h, nthread, "bot")
    IN  [free |-> next.free, running |-> next.running,
         calls |-> Append(prev.calls,
                          [host |-> h, threads |-> nthread, pid |-> next.pid])]

\* botnet.forEach(exec) with no filter: exec is called for every server.
RECURSIVE botnet_exec_unfiltered(_, _, _, _)
botnet_exec_unfiltered(w, s, botnet, n) ==
    IF n = 0 THEN [free |-> w.free, running |-> w.running, calls |-> <<>>]
    ELSE CHOOSE r \in {botnet_exec_turn_unfiltered(prev, s, botnet[n]) :
                          prev \in {botnet_exec_unfiltered(w, s, botnet, n - 1)}} :
             TRUE

\* One turn of botnet.filter(can_run_script).forEach(exec): server h is
\* passed over when no thread of the script fits there, else exec is called
\* for it with the threads that fit, in the world prev the turns before it
\* have left.
botnet_exec_turn(prev, s, h) ==
    LET nthread == hgw_action_nthread(prev.free[h], s)
        next == ns_exec(prev, s, h, nthread, "bot")
    IN  IF can_run_script(prev.free[h], s)
        THEN [free |-> next.free, running |-> next.running,
              calls |-> Append(prev.calls,
                               [host |-> h, threads |-> nthread,
                                pid |-> next.pid])]
        ELSE prev

\* botnet.filter(can_run_script).forEach(exec) over the first n servers of
\* botnet: the world after the calls of exec and the calls made, each with
\* its server, its number of threads and the PID returned.
RECURSIVE botnet_exec(_, _, _, _)
botnet_exec(w, s, botnet, n) ==
    IF n = 0 THEN [free |-> w.free, running |-> w.running, calls |-> <<>>]
    ELSE CHOOSE r \in {botnet_exec_turn(prev, s, botnet[n]) :
                          prev \in {botnet_exec(w, s, botnet, n - 1)}} : TRUE

\* hgw_action from its start to ns.sleep(time), with the botnet of the pass.
BotDispatch(action, botnet) ==
    LET w == botnet_exec([free |-> free, running |-> running],
                         hgw_script(action), botnet, Len(botnet))
    IN  /\ free' = w.free
        /\ running' = w.running
        /\ bot' = [bot EXCEPT !.pc = "sleep", !.step = action,
                              !.botnet = botnet,
                              !.disp = @ \/ w.running # running]

\* has_min_security(ns, host) && has_max_money(ns, host) at the end of a pass.
prep_is_done(s, m) == has_min_security(s) /\ has_max_money(m)

\* The end of a pass: break, or ns.sleep(1).
BotFinal(botnet) ==
    /\ bot' = IF prep_is_done(sec, money)
              THEN [bot EXCEPT !.pc = "done", !.step = "none",
                               !.botnet = botnet]
              ELSE [bot EXCEPT !.pc = "yield", !.step = "none",
                               !.botnet = botnet, !.first = FALSE]
    /\ UNCHANGED <<free, running>>

\* The grow step of a pass.
BotGrowStep(botnet) ==
    IF ~has_max_money(money) THEN BotDispatch(ACTION_GROW, botnet)
    ELSE BotFinal(botnet)

\* The weaken step of a pass.
BotWeakenStep(botnet) ==
    IF ~has_min_security(sec) THEN BotDispatch(ACTION_WEAKEN, botnet)
    ELSE BotGrowStep(botnet)

\* prep from the top of its loop, where it calls nuke_servers, to its next
\* suspension or its end.
prep ==
    /\ bot.pc \in {"start", "yield"}
    /\ \E botnet \in {nuke_servers(admin)} : BotWeakenStep(botnet)
    /\ UNCHANGED <<sec, money, batch, wg, not_hgw>>

\* hgw_action wakes from ns.sleep(time) and returns; prep goes on to its
\* next suspension with the botnet of the pass.
hgw_action ==
    /\ bot.pc = "sleep"
    /\ IF bot.step = ACTION_WEAKEN THEN BotGrowStep(bot.botnet)
       ELSE BotFinal(bot.botnet)
    /\ UNCHANGED <<sec, money, batch, wg, not_hgw>>

----------------------------------------------------------------------------
(* Specification of the batcher. *)

InitTarget ==
    /\ sec \in {MinSec, MinSec + SECURITY_WEAKEN, MaxSec}
    /\ money \in 0..MaxMoney

InitBatch ==
    /\ sec = MinSec
    /\ money = MaxMoney
    /\ free = [h \in Hosts |-> MaxRamOf(h)]
    /\ running = {}
    /\ batch = NoBatch
    /\ wg = WgStart
    /\ bot = BotStart
    /\ admin = Hosts
    /\ TriangleIdle
    /\ AugIdle
    /\ ScriptsIdle

NextBatch == launch_batch \/ Finish \/ OtherExec

SpecBatch == InitBatch /\ [][NextBatch]_vars

----------------------------------------------------------------------------
(* Properties of launch_batch. *)

\* The predicted duration of the i-th action of the last batch
\* (1 weaken, 2 grow, 3 hack).
BatchTime(i) ==
    IF i = 1 THEN batch.param.weaken.time
    ELSE IF i = 2 THEN batch.param.grow.time ELSE batch.param.hack.time

\* The predicted completion time of the i-th action of the last batch: its
\* fire-delay plus its predicted duration.
Completion(i) == batch.calls[i].time + BatchTime(i)

\* Whether wait_g of the last batch was positive and kept.
WaitGKept == Floor(BatchTime(1) - Ms(DELAY) - BatchTime(2)) > 0

\* C1: in every batch launched, weaken is predicted to complete first, then
\* grow, then hack, each at least DELAY after the one before.
C1_WeakenGrowHack ==
    batch.ret = SUCCESS =>
        /\ Completion(1) + Ms(DELAY) <= Completion(2)
        /\ Completion(2) + Ms(DELAY) <= Completion(3)

\* What launch_batch does instead: in every batch launched, hack is
\* predicted to complete exactly DELAY before grow; when
\* wait_g = Tw - DELAY - Tg has a positive floor, grow is predicted to
\* complete exactly DELAY before weaken (the order is hack, grow, weaken);
\* otherwise grow is fired DELAY after now and is predicted to complete
\* later than 1 ms before weaken does.
C1_HackGrowWeaken ==
    batch.ret = SUCCESS =>
        /\ Completion(3) + Ms(DELAY) = Completion(2)
        /\ WaitGKept => Completion(2) + Ms(DELAY) = Completion(1)
        /\ ~WaitGKept =>
              /\ Completion(2) = Ms(DELAY) + BatchTime(2)
              /\ Completion(2) + Ms(1) > Completion(1)

\* C2: weaken is fired with delay 0, grow with delay Tw - Tg + DELAY and
\* hack with delay Tw - Th + 2 * DELAY.
C2_DelaysAsStated ==
    batch.ret = SUCCESS =>
        /\ batch.calls[1].time = 0
        /\ batch.calls[2].time = BatchTime(1) - BatchTime(2) + Ms(DELAY)
        /\ batch.calls[3].time = BatchTime(1) - BatchTime(3) + 2 * Ms(DELAY)

\* What launch_batch does instead: the calls of exec are weaken, grow,
\* hack in this order; weaken is fired with delay 0, grow with delay
\* Tw - Tg - DELAY (DELAY when the floor of that is not positive) and hack
\* with the delay of grow plus Tg - Th - DELAY.
C2_FireDelays ==
    batch.ret = SUCCESS =>
        /\ batch.calls[1].script = SCRIPT_WEAKEN
        /\ batch.calls[2].script = SCRIPT_GROW
        /\ batch.calls[3].script = SCRIPT_HACK
        /\ batch.calls[1].time = 0
        /\ batch.calls[2].time =
              IF WaitGKept THEN BatchTime(1) - BatchTime(2) - Ms(DELAY)
              ELSE Ms(DELAY)
        /\ batch.calls[3].time =
              batch.calls[2].time + BatchTime(2) - BatchTime(3) - Ms(DELAY)

\* C3: when the planner returns INVALID_NUM_THREAD, launch_batch calls exec
\* for no weaken, grow or hack and returns failure.
C3_InvalidPlanNoDispatch ==
    (batch.called /\ batch.hthread = INVALID_NUM_THREAD) =>
        /\ batch.ret = FAILURE
        /\ batch.calls = <<>>

\* launch_batch was called and the planner returned INVALID_NUM_THREAD.
C3_Witness ==
    /\ batch.called
    /\ batch.hthread = INVALID_NUM_THREAD
    /\ batch.ret = FAILURE

\* C4: launch_batch returns true if and only if all three processes of the
\* batch (weaken, grow, hack) were started.
C4_TrueIffLaunched ==
    batch.called =>
        (batch.ret = SUCCESS <=>
            /\ Len(batch.calls) = 3
            /\ \A i \in 1..3 : batch.calls[i].pid # 0)

\* C5: every fire-delay launch_batch passes to exec is non-negative.
C5_DelaysNonNegative ==
    \A i \in 1..Len(batch.calls) : batch.calls[i].time >= 0

\* A batch was launched for a target whose hack is so short that
\* wait_g = Tw - DELAY - Tg is not positive and was replaced by DELAY and
\* that wait_h = Tg - DELAY - Th is negative: hack is fired wait_g + wait_h
\* after now, sooner than grow.
C5_Witness ==
    /\ batch.ret = SUCCESS
    /\ ~WaitGKept
    /\ batch_wait_h(batch.param) < 0
    /\ batch.calls[2].time = Ms(DELAY)
    /\ batch.calls[3].time < batch.calls[2].time

\* C14: in every batch launched, the weaken threads take away at least the
\* security the hack threads and the grow threads add:
\* w * 0.05 >= h * 0.002 + g * 0.004.
C14_WeakenCoversHackAndGrow ==
    batch.ret = SUCCESS =>
        /\ batch.param.hack.thread >= 1
        /\ batch.param.weaken.thread * SECURITY_WEAKEN >=
              batch.param.hack.thread * SECURITY_HACK
              + batch.param.grow.thread * SECURITY_GROW
        /\ batch.calls[1].thread = batch.param.weaken.thread
        /\ batch.calls[2].thread = batch.param.grow.thread
        /\ batch.calls[3].thread = batch.param.hack.thread

\* A batch was launched whose weaken threads would not cover its grow
\* threads had they been sized for its hack threads only.
C14_Witness ==
    /\ batch.ret = SUCCESS
    /\ CeilDiv(batch.param.hack.thread * SECURITY_HACK, SECURITY_WEAKEN)
            * SECURITY_WEAKEN
         < batch.param.hack.thread * SECURITY_HACK
           + batch.param.grow.thread * SECURITY_GROW
    /\ batch.calls[1].thread * SECURITY_WEAKEN >=
           batch.param.hack.thread * SECURITY_HACK
           + batch.param.grow.thread * SECURITY_GROW

\* What a call of launch_batch computed: its result, its plan and, for every
\* call of exec, the script, the threads and the fire-delay.
BatchPlan(b) ==
    [ret |-> b.ret, param |-> b.param,
     calls |-> [i \in 1..Len(b.calls) |->
                  [script |-> b.calls[i].script, thread |-> b.calls[i].thread,
                   time |-> b.calls[i].time]]]

RECURSIVE SumThreads(_)
SumThreads(S) ==
    IF S = {} THEN 0
    ELSE LET p == CHOOSE q \in S : TRUE
         IN  p.threads + SumThreads(S \ {p})

\* The processes a step starts for a batch.
BatchStarted == {p \in running' \ running : p.owner = "batch"}

\* C17: when launch_batch starts processes, the threads started
\* for every operation of the batch, on all hosts together, add up to the
\* threads planned for it, also when they do not fit on one host.
C17_SplitAcrossHosts ==
    [][BatchStarted # {} =>
          \A i \in 1..3 :
              SumThreads({p \in BatchStarted :
                             p.script = batch'.calls[i].script})
                 = batch'.calls[i].thread]_vars

\* What launch_batch does instead: every process it starts runs on the purchased
\* server of the object and has all the threads planned for its operation;
\* an operation whose process was not started has no thread on any host,
\* and its threads do not fit in the RAM left free on the purchased server.
C17_BatchOnOneHost ==
    [][BatchStarted # {} =>
          /\ \A p \in BatchStarted :
                /\ p.host = phost
                /\ \E i \in 1..3 :
                      /\ batch'.calls[i].pid = p.pid
                      /\ batch'.calls[i].script = p.script
                      /\ batch'.calls[i].thread = p.threads
          /\ \A i \in 1..3 :
                batch'.calls[i].pid = 0 =>
                    /\ \A p \in BatchStarted : p.script # batch'.calls[i].script
                    /\ ScriptRam(batch'.calls[i].script) * batch'.calls[i].thread
                          > free'[phost]]_vars

----------------------------------------------------------------------------
(* Specification of the preparation loops: PservHGW.prep_wg on the         *)
(* purchased server and prep on the botnet, against the same target.       *)

InitPrep ==
    /\ InitTarget
    /\ free = [h \in Hosts |-> MaxRamOf(h)]
    /\ running = {}
    /\ batch = NoBatch
    /\ wg = WgStart
    /\ bot = BotStart
    /\ admin \in AdminSets
    /\ TriangleIdle
    /\ AugIdle
    /\ ScriptsIdle

NextPrep ==
    \/ prep_wg
    \/ PservHGW_hgw_action
    \/ prep
    \/ hgw_action
    \/ Finish
    \/ OtherExec
    \/ AdminGained

SpecPrep == InitPrep /\ [][NextPrep]_vars

\* A purchased server prepares its target with prep_wg and then launches
\* batches against it.
NextHGW ==
    \/ prep_wg
    \/ PservHGW_hgw_action
    \/ (wg.pc = "done" /\ launch_batch)
    \/ Finish
    \/ OtherExec

\* gain_admin_access succeeds on every server: prep of the botnet is not
\* part of this specification.
InitHGW == InitPrep /\ admin = Hosts

SpecHGW == InitHGW /\ [][NextHGW]_vars

----------------------------------------------------------------------------
(* Properties of the preparation loops. *)

\* The processes a step starts for owner o.
Started(o) == {p \in running' \ running : p.owner = o}

\* The processes of owner o in flight.
InFlight(o) == {p \in running : p.owner = o}

\* The target is at minimum security and at maximum money.
Prepped == sec <= MinSec /\ money >= MaxMoney

\* C6: when the target is at minimum security and maximum money as the
\* preparation loop (prep_wg, prep) starts, its first step returns and
\* starts no process.
C6_PreppedReturnsAtOnce ==
    [][/\ (wg.pc = "start" /\ wg' # wg /\ Prepped) =>
            (wg'.pc = "done" /\ running' = running)
       /\ (bot.pc = "start" /\ bot' # bot /\ Prepped) =>
            (bot'.pc = "done" /\ running' = running)]_vars

\* Both loops have returned in their first pass, having started no process.
C6_Witness ==
    /\ wg.pc = "done" /\ wg.first /\ ~wg.disp
    /\ bot.pc = "done" /\ bot.first /\ ~bot.disp

\* C7: in the state in which the preparation loop (prep_wg, prep) returns,
\* the target is at minimum security and at maximum money.
C7_ReturnsOnlyPrepped ==
    [][/\ (wg.pc # "done" /\ wg'.pc = "done") =>
            (sec' <= MinSec /\ money' >= MaxMoney)
       /\ (bot.pc # "done" /\ bot'.pc = "done") =>
            (sec' <= MinSec /\ money' >= MaxMoney)]_vars

\* Both loops have returned after a pass that did not end them, each having
\* started a process.
C7_Witness ==
    /\ wg.pc = "done" /\ ~wg.first /\ wg.disp
    /\ bot.pc = "done" /\ ~bot.first /\ bot.disp

\* C8: a weaken is started only at the top of a pass and only when the
\* target is above minimum security in the state that step observes; a grow
\* is started only when the target is below maximum money in the state that
\* step observes, and never while the loop is in the grow step of the pass.
C8_WeakenThenGrowAsObserved ==
    [][/\ \A p \in Started("wg") :
            /\ p.script = SCRIPT_WEAKEN =>
                  (sec > MinSec /\ wg.pc \in {"start", "yield"})
            /\ p.script = SCRIPT_GROW =>
                  (money < MaxMoney /\ wg.step # ACTION_GROW)
       /\ \A p \in Started("bot") :
            /\ p.script = SCRIPT_WEAKEN =>
                  (sec > MinSec /\ bot.pc \in {"start", "yield"})
            /\ p.script = SCRIPT_GROW =>
                  (money < MaxMoney /\ bot.step # ACTION_GROW)]_vars

\* prep_wg waits for a grow it started and prep has a grow in flight.
C8_Witness ==
    /\ wg.pc = "sleep" /\ wg.step = ACTION_GROW
    /\ \E p \in InFlight("wg") : p.pid = wg.pid /\ p.script = SCRIPT_GROW
    /\ \E p \in InFlight("bot") : p.script = SCRIPT_GROW

\* C9: hgw_action returns only when no process it started is running, in
\* prep_wg and in prep.
C9_ReturnsAfterFinished ==
    [][/\ (wg.pc \in {"sleep", "poll"} /\ wg' # wg /\ wg'.pc # "poll") =>
            InFlight("wg") = {}
       /\ (bot.pc = "sleep" /\ bot' # bot) => InFlight("bot") = {}]_vars

\* Whether this step of prep_wg calls exec, in hgw_action.
WgExecs == wg'.pc = "sleep" /\ wg' # wg

\* Whether this step of prep calls hgw_action.
BotActs == bot'.pc = "sleep" /\ bot' # bot

\* The calls of exec that hgw_action of the botnet makes in this step.
BotCalls ==
    botnet_exec([free |-> free, running |-> running],
                hgw_script(bot'.step), bot'.botnet, Len(bot'.botnet)).calls

\* No thread of script s fits on the purchased server.
PservFull(s) == ~can_run_script(free[phost], s)

\* No thread of script s fits on any server nuke_servers returns.
BotnetFull(s) ==
    \A i \in 1..Len(nuke_servers(admin)) :
        ~can_run_script(free[nuke_servers(admin)[i]], s)

\* C11: when the target is above minimum security and no thread of
\* weaken.js fits on any worker host of the loop, the step of the
\* preparation loop (prep_wg, prep) starts no process and does not go on as
\* after a step that was carried out: it does not wait for the action, test
\* the end of the pass or return.
C11_NoCapacityInvalidPlan ==
    [][/\ (wg.pc \in {"start", "yield"} /\ wg' # wg
            /\ sec > MinSec /\ PservFull(SCRIPT_WEAKEN)) =>
            (Started("wg") = {} /\ wg'.pc \notin {"sleep", "yield", "done"})
       /\ (bot.pc \in {"start", "yield"} /\ bot' # bot
            /\ sec > MinSec /\ BotnetFull(SCRIPT_WEAKEN)) =>
            (Started("bot") = {} /\ bot'.pc \notin {"sleep", "yield", "done"})]_vars

\* C12: every call of exec that hgw_action makes, on the purchased server
\* and on the botnet, asks for at least one thread, and a server of the
\* botnet where no thread of the script fits gets no call of exec and no
\* process.
C12_ThreadsPositive ==
    [][/\ WgExecs => PservHGW_nthread(free[phost], hgw_script(wg'.step)) >= 1
       /\ BotActs =>
            /\ \A i \in 1..Len(BotCalls) : BotCalls[i].threads >= 1
            /\ \A j \in 1..Len(bot'.botnet) :
                  ~can_run_script(free[bot'.botnet[j]], hgw_script(bot'.step)) =>
                      /\ \A i \in 1..Len(BotCalls) :
                            BotCalls[i].host # bot'.botnet[j]
                      /\ \A p \in Started("bot") : p.host # bot'.botnet[j]
       /\ \A p \in running' : p.threads >= 1]_vars

\* prep waits for an action it started on b1 and on b3, having skipped b2
\* and the purchased server, where no thread fits, and prep_wg waits for
\* the process it started on the purchased server.
C12_Witness ==
    /\ bot.pc = "sleep"
    /\ {p.host : p \in InFlight("bot")} = {"b1", "b3"}
    /\ wg.pc = "sleep"
    /\ \E p \in InFlight("wg") : p.pid = wg.pid /\ p.threads >= 1

\* C13: every call of exec that hgw_action makes starts a process, whose
\* threads fit in the RAM that is free on its server in the state the step
\* starts from, with any interleaving of the schedulers; the free RAM of a
\* server never goes below zero.
C13_FitsFreeCapacity ==
    [][/\ WgExecs =>
            \E p \in Started("wg") :
                /\ p.pid = wg'.pid /\ p.host = phost
                /\ ScriptRam(p.script) * p.threads <= free[phost]
       /\ BotActs =>
            \A i \in 1..Len(BotCalls) :
                \E p \in Started("bot") :
                    /\ p.pid = BotCalls[i].pid /\ p.host = BotCalls[i].host
                    /\ p.threads = BotCalls[i].threads
                    /\ ScriptRam(p.script) * p.threads <= free[p.host]
       /\ \A h \in Hosts : free'[h] >= 0 /\ free'[h] <= MaxRamOf(h)]_vars

\* prep_wg has started a process on the purchased server while a process of
\* another scheduler holds RAM there, with fewer threads than the server
\* has room for when empty.
C13_Witness ==
    \E p \in InFlight("wg"), q \in InFlight("other") :
        /\ p.pid = wg.pid /\ wg.pc = "sleep"
        /\ p.host = q.host
        /\ p.threads < num_threads(PservRam, p.script)

C16_GameKeepsBounds ==
    /\ sec >= MinSec
    /\ money >= 0
    /\ money <= MaxMoney

\* C10: the weaken threads started are ceil((d - m) / 0.05), capped by the
\* threads that fit on the host.
C10_ThreadsAsNeeded ==
    [][\A p \in Started("wg") \cup Started("bot") :
          p.script = SCRIPT_WEAKEN =>
              p.threads = Min(CeilDiv(sec - MinSec, SECURITY_WEAKEN),
                              free[p.host] \div ScriptRam(SCRIPT_WEAKEN))]_vars

\* What the preparation loops do instead: the weaken threads started on a
\* host are all the threads of weaken.js that fit in the free RAM of the
\* host, whatever d - m.
C10_ThreadsAllThatFit ==
    [][\A p \in Started("wg") \cup Started("bot") :
          p.script = SCRIPT_WEAKEN =>
              p.threads = free[p.host] \div ScriptRam(SCRIPT_WEAKEN)]_vars

----------------------------------------------------------------------------
(* Minimum path sum in a triangle: descend and descend_naive of            *)
(* src/unnamed/part_000.  A triangle is a sequence of rows; the indices of *)
(* the code start at 0, those of the sequences at 1.                       *)

\* The largest number of levels and the largest number of the triangles
\* that are enumerated; their numbers are -1 .. MaxNum - 1.
MaxLevels == 3
MaxNum == 1
\* The largest number of levels of a triangle given to descend_naive.
MaxNaive == 8

\* The test data of main.
TestData ==
    << << <<2>>, <<3, 4>>, <<6, 5, 7>>, <<4, 1, 8, 3>> >>,
       << <<-10>> >>,
       << <<9>>, <<4, 3>>, <<8, 4, 2>>, <<7, 8, 7, 1>>, <<4, 6, 7, 9, 4>>,
          <<4, 7, 6, 3, 5, 4>>, <<8, 6, 5, 7, 5, 2, 6>>,
          <<6, 3, 9, 9, 9, 7, 6, 3>> >>,
       << <<3>>, <<6, 4>>, <<5, 2, 7>>, <<9, 1, 8, 6>> >>,
       << <<-1>>, <<2, 3>>, <<1, -1, -3>> >>,
       << <<55>>,
          <<94, 48>>,
          <<95, 30, 96>>,
          <<77, 71, 26, 67>>,
          <<97, 13, 76, 38, 45>>,
          <<7, 36, 79, 16, 37, 68>>,
          <<48, 7, 9, 18, 70, 26, 6>>,
          <<18, 72, 79, 46, 59, 79, 29, 90>>,
          <<20, 76, 87, 11, 32, 7, 7, 49, 18>>,
          <<27, 83, 58, 35, 71, 11, 25, 57, 29, 85>>,
          <<14, 64, 36, 96, 27, 11, 58, 56, 92, 18, 55>>,
          <<2, 90, 3, 60, 48, 49, 41, 46, 33, 36, 47, 23>>,
          <<92, 50, 48, 2, 36, 59, 42, 79, 72, 20, 82, 77, 42>>,
          <<56, 78, 38, 80, 39, 75, 2, 71, 66, 66, 1, 3, 55, 72>>,
          <<44, 25, 67, 84, 71, 67, 11, 61, 40, 57, 58, 89, 40, 56, 36>>,
          <<85, 32, 25, 85, 57, 48, 84, 35, 47, 62, 17, 1, 1, 99, 89, 52>>,
          <<6, 71, 28, 75, 94, 48, 37, 10, 23, 51, 6, 48, 53, 18, 74, 98, 15>>,
          <<27, 2, 92, 23, 8, 71, 76, 84, 15, 52, 92, 63, 81, 10, 44, 10, 69,
            93>> >> >>

\* The minimum sums the test data of main gives for its triangles.
TestSums == <<11, -10, 31, 10, -1, 475>>

\* The rows of i numbers.
Rows(i) == [1..i -> (-1)..(MaxNum - 1)]

\* The triangles of n levels over these numbers.
RECURSIVE TrianglesOf(_)
TrianglesOf(n) ==
    IF n = 0 THEN {<<>>}
    ELSE {Append(t, r) : t \in TrianglesOf(n - 1), r \in Rows(n)}

\* The triangles given to descend and descend_naive.
Triangles ==
    {TestData[k] : k \in 1..Len(TestData)}
    \cup UNION {TrianglesOf(n) : n \in 1..MaxLevels}

is_triangle(t) ==
    /\ Len(t) > 0
    /\ \A i \in 1..(Len(t) - 1) :
          /\ Len(t[i]) >= 1
          /\ Len(t[i + 1]) >= 1
          /\ Len(t[i]) = Len(t[i + 1]) - 1

\* path.reverse()
Reverse(s) == [i \in 1..Len(s) |-> s[Len(s) + 1 - i]]

\* Level i of mtriangle with the left number of the level below added,
\* not the smaller of the two numbers below.
descend_row_left(row, below) == [j \in 1..Len(row) |-> row[j] + below[j]]

\* Level i of mtriangle after the inner loop of descend: every number has
\* the smaller of the two numbers below it added.  below is level i + 1.
descend_row(row, below) ==
    [j \in 1..Len(row) |-> row[j] + Min(below[j], below[j + 1])]

\* mink after the inner loop of descend: for the first j whose number of
\* level i is the smallest of the level, j when a < b and j + 1 otherwise,
\* as an index of the code.
descend_mink(mrow, below) ==
    LET j == CHOOSE k \in 1..Len(mrow) :
                 /\ \A l \in 1..Len(mrow) : mrow[k] <= mrow[l]
                 /\ \A l \in 1..(k - 1) : mrow[l] > mrow[k]
    IN  IF below[j] < below[j + 1] THEN j - 1 ELSE j

\* The outer loop of descend from the penultimate level up to level i:
\* level i of mtriangle and the indices pushed on path.
RECURSIVE descend_loop(_, _)
descend_loop(t, i) ==
    IF i = Len(t) THEN [m |-> t[i], path |-> <<>>]
    ELSE LET prev == descend_loop(t, i + 1)
             mrow == descend_row(t[i], prev.m)
         IN  [m |-> mrow, path |-> Append(prev.path, descend_mink(mrow, prev.m))]

\* path after path.push(0) and path.reverse(): for every level an index of
\* the code.
descend_index(t) == Reverse(Append(descend_loop(t, 1).path, 0))

\* descend(triangle): the path and the minimum sum.
descend(t) ==
    IF Len(t) = 1 THEN <<t[1], t[1][1]>>
    ELSE LET idx == descend_index(t)
         IN  <<[i \in 1..Len(t) |-> t[i][idx[i] + 1]], descend_loop(t, 1).m[1]>>

\* path of all_paths after its loop has run up to i = n: every path is a
\* sequence of <<level, element>>, indices of the code.
RECURSIVE all_paths_loop(_)
all_paths_loop(n) ==
    IF n = 0 THEN << << <<0, 0>> >> >>
    ELSE LET path == all_paths_loop(n - 1)
         IN  [k \in 1..(2 * Len(path)) |->
                 LET p == path[(k + 1) \div 2]
                     last == p[Len(p)]
                 IN  IF k % 2 = 1
                     THEN Append(p, <<last[1] + 1, last[2]>>)
                     ELSE Append(p, <<last[1] + 1, last[2] + 1>>)]

all_paths(t) == all_paths_loop(Len(t) - 1)

\* The sum of the first n nodes of a path.
RECURSIVE path_sum_loop(_, _, _)
path_sum_loop(t, path, n) ==
    IF n = 0 THEN 0
    ELSE path_sum_loop(t, path, n - 1) + t[path[n][1] + 1][path[n][2] + 1]

path_sum(t, path) == path_sum_loop(t, path, Len(path))

\* minimum_path: the first path whose sum is the smallest, as numbers, and
\* its sum.
minimum_path(t, path) ==
    LET i == CHOOSE k \in 1..Len(path) :
                 /\ \A l \in 1..Len(path) : path_sum(t, path[k]) <= path_sum(t, path[l])
                 /\ \A l \in 1..(k - 1) : path_sum(t, path[l]) > path_sum(t, path[k])
        min_path == path[i]
    IN  <<[n \in 1..Len(min_path) |-> t[min_path[n][1] + 1][min_path[n][2] + 1]],
          path_sum(t, min_path)>>

\* descend_naive(triangle): the path and the minimum sum.
descend_naive(t) ==
    IF Len(t) = 1 THEN <<t[1], t[1][1]>>
    ELSE minimum_path(t, all_paths(t))

\* A call of descend, as main makes for every triangle of its test data.
CallDescend ==
    /\ answer.by = "none"
    /\ is_triangle(triangle)
    /\ answer' = [by |-> "descend", path |-> descend(triangle)[1],
                  sum |-> descend(triangle)[2]]
    /\ UNCHANGED <<triangle, not_triangle>>

\* A call of descend_naive.
CallDescendNaive ==
    /\ answer.by = "none"
    /\ is_triangle(triangle)
    /\ Len(triangle) <= MaxNaive
    /\ answer' = [by |-> "descend_naive", path |-> descend_naive(triangle)[1],
                  sum |-> descend_naive(triangle)[2]]
    /\ UNCHANGED <<triangle, not_triangle>>

InitTriangle ==
    /\ HgwIdle
    /\ AugIdle
    /\ ScriptsIdle
    /\ triangle \in Triangles
    /\ answer = NoAnswer

NextTriangle == CallDescend \/ CallDescendNaive

SpecTriangle == InitTriangle /\ [][NextTriangle]_vars

----------------------------------------------------------------------------
(* Properties of descend. *)

\* The smallest sum of a path that goes down from number j of level i to
\* the bottom, moving to an adjacent number of the level below.
RECURSIVE MinFrom(_, _, _)
MinFrom(t, i, j) ==
    IF i = Len(t) THEN t[i][j]
    ELSE t[i][j] + Min(MinFrom(t, i + 1, j), MinFrom(t, i + 1, j + 1))

\* Whether the numbers of path from level i on are those of a path that
\* goes down from number j of level i, moving to an adjacent number.
RECURSIVE IsPathFrom(_, _, _, _)
IsPathFrom(t, path, i, j) ==
    /\ path[i] = t[i][j]
    /\ \/ i = Len(t)
       \/ IsPathFrom(t, path, i + 1, j)
       \/ IsPathFrom(t, path, i + 1, j + 1)

\* The sum of the first n numbers of a sequence.
RECURSIVE SumTo(_, _)
SumTo(seq, n) == IF n = 0 THEN 0 ELSE SumTo(seq, n - 1) + seq[n]

\* C18: the sum descend returns is the smallest sum of a path from the top
\* to the bottom of the triangle, it is the sum descend_naive returns, and
\* on the triangles of the test data it is 11, -10, 31, 10, -1 and 475.
C18_DescendMinimumSum ==
    /\ answer.by = "descend" =>
          /\ answer.sum = MinFrom(triangle, 1, 1)
          /\ \A k \in 1..Len(TestData) :
                triangle = TestData[k] => answer.sum = TestSums[k]
    /\ answer.by = "descend_naive" =>
          /\ answer.sum = descend(triangle)[2]
          /\ answer.sum = MinFrom(triangle, 1, 1)

\* descend has returned 475 for the last triangle of the test data.
C18_Witness ==
    /\ answer.by = "descend"
    /\ triangle = TestData[6]
    /\ answer.sum = 475

\* C19: the path descend returns has one number for every level, its
\* numbers are those of a path that starts at the top and moves to an
\* adjacent number of the level below at every step, and they add up to the
\* minimum sum descend returns.
C19_DescendMinimumPath ==
    answer.by = "descend" =>
        /\ Len(answer.path) = Len(triangle)
        /\ IsPathFrom(triangle, answer.path, 1, 1)
        /\ SumTo(answer.path, Len(answer.path)) = answer.sum

----------------------------------------------------------------------------
(* Purchase of Augmentations: purchase_augmentations and purchase_aug of   *)
(* src/07/lib/singularity.augmentation.js.  The Augmentations of the       *)
(* faction are 1 .. NumAugs in the order the game lists them, and 0 is the *)
(* NeuroFlux Governor.  The code between two suspensions is one step; the  *)
(* functions suspend in ns.sleep(time) of purchase_aug, where the wait for *)
(* money of commit_crime and work is counted in.                           *)

\* The number of Augmentations of the faction, the NeuroFlux Governor aside.
NumAugs == 4
\* The most Augmentations of other factions bought and not yet installed
\* when purchase_augmentations is called.
MaxOther == 4
\* The most money on home, the highest price of the NeuroFlux Governor,
\* the most reputation with the faction and the most reputation the
\* NeuroFlux Governor requires, all in halves.
MaxWallet == 6
MaxPrice == 3
MaxRep == 4
MaxReq == 3

Augs == 1..NumAugs

\* The Augmentations of other factions, k of them.
OtherAugs(k) == {-i : i \in 1..k}

\* Math.ceil and Math.floor of an amount in halves.
Math_ceil(x) == ((x + 1) \div 2) * 2
Math_floor(x) == (x \div 2) * 2

\* nfg()
nfg == 0

\* aug_purchase_limit()
aug_purchase_limit == 5

\* The prerequisites the game can give: those of an Augmentation are among
\* the two Augmentations listed before it.
Prereqs ==
    {[a \in Augs |-> {a - d : d \in back[a]} \cap Augs] :
        back \in [Augs -> SUBSET {1, 2}]}

\* The prices the game can give, in halves of a dollar: rising, falling,
\* or 9.5 and 10 in turn, which are all the same once rounded up.
Prices ==
    {[a \in Augs |-> 20 * a], [a \in Augs |-> 20 * (NumAugs + 1 - a)],
     [a \in Augs |-> 20 - (a % 2)]}

\* The game: the money, the price of the next level of the NeuroFlux
\* Governor, the reputation with the faction and the reputation the next
\* level requires.
Markets ==
    [money : 0..MaxWallet, price : 1..MaxPrice, rep : 0..MaxRep,
     req : 1..MaxReq]

\* has_augmentation(ns, aug) when own are the Augmentations owned.
has_augmentation(own, a) == a \in own

\* num_augmentations(ns)
num_augmentations(own) == Cardinality(own) - Cardinality(installed)

\* prerequisites that gives no prerequisite for any Augmentation.
prerequisites_none(a, own) == {}

\* The keys of prerequisites(ns, aug): the prerequisites of aug not yet
\* purchased.
prerequisites(a, own) == {b \in catalog.prereq[a] : ~has_augmentation(own, b)}

\* The values of the map of augmentations_to_buy: the prices rounded up.
buy_cost == [a \in Augs |-> Math_ceil(catalog.price[a])]

\* The values of the map of prerequisites: the prices as they are.
prereq_cost == [a \in Augs |-> catalog.price[a]]

\* choose_augmentation that returns the first Augmentation of the map.
choose_augmentation_first(augment, cost) ==
    CHOOSE a \in augment : \A b \in augment : a <= b

\* The Augmentation choose_augmentation returns for a map with the keys
\* augment and the values cost: the first, in the order of the map, of the
\* most expensive ones.
choose_augmentation(augment, cost) ==
    CHOOSE a \in augment :
        \A b \in augment :
            \/ cost[a] > cost[b]
            \/ cost[a] = cost[b] /\ a <= b

\* The keys of augmentations_to_buy(ns, fac) after augment.delete(nfg()).
augmentations_to_buy(own) == {a \in Augs : ~has_augmentation(own, a)}

RECURSIVE purchase_aug_call(_, _, _)
RECURSIVE purchase_aug_loop(_, _)
RECURSIVE purchase_augmentations_loop(_, _)

\* purchase_aug from a point of its first loop to the next suspension: it
\* calls itself for the most expensive prerequisite left; with none left it
\* goes on to its second loop, where its assertion fails when the
\* Augmentation is owned, and sleeps.
purchase_aug_loop(own, c) ==
    LET f == c.stack[Len(c.stack)]
    IN  IF f.prereq # {}
        THEN purchase_aug_call(own, c,
                               choose_augmentation(f.prereq, prereq_cost))
        ELSE IF has_augmentation(own, f.aug)
        THEN [c EXCEPT !.pc = "failed"]
        ELSE [c EXCEPT !.pc = "sleep"]

\* A call of purchase_aug(ns, a, cost, fac), up to the next suspension.
purchase_aug_call(own, c, a) ==
    purchase_aug_loop(own,
        [c EXCEPT !.stack = Append(@, [aug |-> a, prereq |-> prerequisites(a, own)])])

\* The loop of purchase_augmentations from its top to the next suspension
\* or to its end, where pc is "nfg".
purchase_augmentations_loop(own, c) ==
    IF c.todo = {} \/ num_augmentations(own) >= aug_purchase_limit
    THEN [c EXCEPT !.pc = "nfg"]
    ELSE LET aug == choose_augmentation(c.todo, buy_cost)
             prereq == prerequisites(aug, own)
         IN  IF has_augmentation(own, aug)
             THEN purchase_augmentations_loop(own, [c EXCEPT !.todo = @ \ {aug}])
             ELSE IF prereq = {}
             THEN purchase_aug_call(own, [c EXCEPT !.cur = aug, !.prereq = {}], aug)
             ELSE purchase_aug_call(own, [c EXCEPT !.cur = aug, !.prereq = prereq],
                                    choose_augmentation(prereq, prereq_cost))

\* The return of the innermost call of purchase_aug after its purchase, up
\* to the next suspension: its caller deletes the Augmentation from its map
\* and goes on.
purchase_aug_return(own, c) ==
    LET a == c.stack[Len(c.stack)].aug
        rest == SubSeq(c.stack, 1, Len(c.stack) - 1)
        left == c.prereq \ {a}
    IN  IF rest # <<>>
        THEN purchase_aug_loop(own,
                [c EXCEPT !.stack = [rest EXCEPT ![Len(rest)].prereq = @ \ {a}]])
        ELSE IF a = c.cur
        THEN purchase_augmentations_loop(own,
                [c EXCEPT !.stack = <<>>, !.todo = @ \ {a}, !.cur = 0])
        ELSE IF left # {}
        THEN purchase_aug_call(own, [c EXCEPT !.stack = <<>>, !.prereq = left],
                               choose_augmentation(left, prereq_cost))
        ELSE purchase_aug_call(own, [c EXCEPT !.stack = <<>>, !.prereq = {}], c.cur)

\* n levels of the NeuroFlux Governor.
NfgLevels(n) == [i \in 1..n |-> nfg]

\* ns.singularity.purchaseAugmentation(fac, nfg()) as the game answers it:
\* the price is paid, and the price and the reputation required double.
\* The game is not taken to refuse a level for want of money or reputation.
purchaseAugmentation_nfg(m) ==
    [m EXCEPT !.money = @ - m.price, !.price = @ + @, !.req = @ + @]

\* The test of the loop of the NeuroFlux Governor that leaves out the
\* reputation.
nfg_affordable_money_only(m) == Math_ceil(m.price) <= m.money

\* The test of the loop of the NeuroFlux Governor on what it has read from
\* the game m.
nfg_affordable(m) ==
    /\ Math_ceil(m.price) <= m.money
    /\ Math_ceil(m.req) <= Math_floor(m.rep)

\* The loop of the NeuroFlux Governor: seen holds the game as it was at
\* each purchase made.
RECURSIVE nfg_loop(_, _)
nfg_loop(m, seen) ==
    IF nfg_affordable(m)
    THEN nfg_loop(purchaseAugmentation_nfg(m), Append(seen, m))
    ELSE [market |-> m, seen |-> seen]

\* The end of a step of purchase_augmentations: where it reached the loop
\* of the NeuroFlux Governor, it buys the levels that money and reputation
\* allow and returns.
purchase_augmentations_end(c, own, log) ==
    IF c.pc = "nfg"
    THEN LET r == nfg_loop(market, <<>>)
         IN  /\ pa' = [c EXCEPT !.pc = "done"]
             /\ bought' = log \o NfgLevels(Len(r.seen))
             /\ owned' = IF r.seen # <<>> THEN own \cup {nfg} ELSE own
             /\ market' = r.market
             /\ nfgseen' = r.seen
    ELSE /\ pa' = c
         /\ bought' = log
         /\ owned' = own
         /\ UNCHANGED <<market, nfgseen>>

\* purchase_augmentations from its call to its first suspension.
purchase_augmentations ==
    /\ pa.pc = "start"
    /\ purchase_augmentations_end(
            purchase_augmentations_loop(owned,
                [pa EXCEPT !.todo = augmentations_to_buy(owned)]),
            owned, bought)
    /\ UNCHANGED <<catalog, installed, not_aug>>

\* purchase_aug wakes from ns.sleep(time) and calls
\* ns.singularity.purchaseAugmentation, which buys the Augmentation or not;
\* the game is not taken to refuse an Augmentation for its prerequisites.
purchase_aug ==
    /\ pa.pc = "sleep"
    /\ \E success \in BOOLEAN :
          IF success
          THEN LET a == pa.stack[Len(pa.stack)].aug
                   own == owned \cup {a}
               IN  purchase_augmentations_end(purchase_aug_return(own, pa),
                                              own, Append(bought, a))
          ELSE UNCHANGED <<owned, bought, pa, market, nfgseen>>
    /\ UNCHANGED <<catalog, installed, not_aug>>

\* Whether every prerequisite of an Augmentation of S is in S.
PrereqClosed(S) == \A a \in S : catalog.prereq[a] \subseteq S

InitAug ==
    /\ HgwIdle
    /\ TriangleIdle
    /\ ScriptsIdle
    /\ catalog \in [prereq : Prereqs, price : Prices]
    /\ installed \in {S \in SUBSET Augs : PrereqClosed(S)}
    /\ \E k \in 0..MaxOther : owned = installed \cup OtherAugs(k)
    /\ bought = <<>>
    /\ pa = NoPurchase
    /\ market \in {m \in Markets : /\ m.money \in {0, MaxWallet}
                                    /\ m.price = MaxPrice
                                    /\ m.rep = MaxRep
                                    /\ m.req = MaxReq}
    /\ nfgseen = <<>>

NextAug == purchase_augmentations \/ purchase_aug

SpecAug == InitAug /\ [][NextAug]_vars

\* The chain of prerequisites: every Augmentation requires the one listed
\* before it.
ChainOfPrereqs == [a \in Augs |-> {a - 1} \cap Augs]

\* purchase_augmentations for a faction whose Augmentations are all still
\* to buy or all owned, with whatever the game holds of money and
\* reputation.
InitNfg ==
    /\ HgwIdle
    /\ TriangleIdle
    /\ ScriptsIdle
    /\ catalog \in [prereq : {[a \in Augs |-> {}], ChainOfPrereqs},
                    price : {[a \in Augs |-> 20 * a]}]
    /\ installed \in {{}, Augs}
    /\ owned = installed
    /\ bought = <<>>
    /\ pa = NoPurchase
    /\ market \in Markets
    /\ nfgseen = <<>>

SpecNfg == InitNfg /\ [][NextAug]_vars

----------------------------------------------------------------------------
(* Properties of the purchase of Augmentations. *)

\* The prerequisites of an Augmentation, and theirs, and so on.
RECURSIVE AllPrereqs(_)
AllPrereqs(a) ==
    catalog.prereq[a] \cup UNION {AllPrereqs(b) : b \in catalog.prereq[a]}

\* C20: when an Augmentation is purchased, all its prerequisites, and
\* theirs, and so on, are owned already.
C20_PrereqsBoughtFirst ==
    [][\A a \in (owned' \ owned) \ {nfg} : AllPrereqs(a) \subseteq owned]_vars

\* Starting with no Augmentation, Augmentation 3 was purchased after its
\* prerequisite 2, which was purchased after its own prerequisite 1.
C20_Witness ==
    /\ installed = {}
    /\ catalog.prereq[3] = {2}
    /\ catalog.prereq[2] = {1}
    /\ Len(bought) >= 3
    /\ SubSeq(bought, 1, 3) = <<1, 2, 3>>

\* The Augmentations bought and not yet installed, the NeuroFlux Governor
\* aside.
BoughtNotInstalled == (owned \ installed) \ {nfg}

\* C21: when purchase_augmentations has returned, the Augmentations bought
\* and not yet installed, the NeuroFlux Governor aside, are at most
\* aug_purchase_limit().
C21_AtMostLimit ==
    pa.pc = "done" => Cardinality(BoughtNotInstalled) <= aug_purchase_limit

\* C22: the Augmentation purchase_augmentations has chosen from its map has
\* the greatest cost of the map, and the only Augmentations purchased while
\* it is the chosen one are itself and its prerequisites, and theirs.
C22_MostExpensiveFirst ==
    [][/\ pa'.cur # 0 =>
            /\ pa'.cur \in pa'.todo
            /\ \A b \in pa'.todo : buy_cost[pa'.cur] >= buy_cost[b]
       /\ \A a \in (owned' \ owned) \ {nfg} :
            a = pa.cur \/ a \in AllPrereqs(pa.cur)]_vars

\* With prices that rise along the list and Augmentation 4 requiring
\* Augmentation 3, the purchases were 3, 4, 2 and 1: the most expensive
\* after its prerequisite, then the most expensive left.
C22_Witness ==
    /\ installed = {}
    /\ catalog.price = [a \in Augs |-> 20 * a]
    /\ catalog.prereq[4] = {3}
    /\ Len(bought) >= 4
    /\ SubSeq(bought, 1, 4) = <<3, 4, 2, 1>>

\* C23: no level of the NeuroFlux Governor is purchased before the loop
\* over the other Augmentations has ended, and at each purchase of a level
\* the money was at least the price, rounded up as the code reads it, and
\* the reputation, rounded down, at least the reputation required, rounded
\* up.
C23_GovernorLast ==
    [][/\ nfg \in owned' \ owned =>
            /\ pa'.pc = "done"
            /\ \/ pa'.todo = {}
               \/ num_augmentations(owned' \ {nfg}) >= aug_purchase_limit
       /\ \A i \in 1..Len(nfgseen') :
            /\ nfgseen'[i].money >= Math_ceil(nfgseen'[i].price)
            /\ nfgseen'[i].money >= nfgseen'[i].price
            /\ Math_floor(nfgseen'[i].rep) >= Math_ceil(nfgseen'[i].req)
            /\ nfgseen'[i].rep >= nfgseen'[i].req
       /\ Len(nfgseen') = Cardinality({i \in 1..Len(bought') : bought'[i] = nfg})
       /\ \A i, j \in 1..Len(bought') :
            bought'[i] = nfg /\ i < j => bought'[j] = nfg]_vars

\* After the four Augmentations of the faction, two levels of the
\* NeuroFlux Governor were purchased: the first at a price of 1.5 with 3.0
\* of money, the second at a price of 3.0 with 1.5 of money left.
C23_Witness ==
    /\ installed = {}
    /\ Len(bought) = NumAugs + 2
    /\ bought[NumAugs + 1] = nfg
    /\ Len(nfgseen) = 2
    /\ nfgseen[1].price % 2 = 1

----------------------------------------------------------------------------
(* sleeve/money.js (src/src/sleeve/money.js, lines 1 to 77): main and      *)
(* commit_crimes.  The code between two calls of ns.sleep is one step.     *)
(* The thresholds has_shoplift_threshold and has_mug_threshold are what    *)
(* the game makes of the stats of the sleeves, and change as it pleases.   *)

\* How many sleeves there are.
NumSleeves == 2

\* all_sleeves(ns)
all_sleeves == 0..(NumSleeves - 1)

\* crimes.SHOP, crimes.MUG and crimes.KILL
crimes_SHOP == "Shoplift"
crimes_MUG == "Mug"
crimes_KILL == "Homicide"

\* What a sleeve can be doing.
SleeveTasks == {"Idle", crimes_SHOP, crimes_MUG, crimes_KILL}

\* has_shoplift_threshold(ns) and has_mug_threshold(ns), as observed at the
\* time of the call.
has_shoplift_threshold(s) == s.shop

\* has_mug_threshold that holds whatever the stats.
has_mug_threshold_met(s) == TRUE

has_mug_threshold(s) == s.mug

\* all_sleeves(ns).forEach((i) => ns.sleeve.setToCommitCrime(i, crime))
set_all_to_commit_crime(s, crime) ==
    [s EXCEPT !.task = [i \in all_sleeves |-> crime],
              !.calls = @ \o [k \in 1..NumSleeves |->
                                [sleeve |-> k - 1, crime |-> crime]]]

\* commit_crimes from the test of its second loop: to homicide once the
\* mug threshold is met, to sleep otherwise.
commit_crimes_mug(s) ==
    IF has_mug_threshold(s)
    THEN [set_all_to_commit_crime(s, crimes_KILL) EXCEPT !.pc = "end"]
    ELSE [s EXCEPT !.pc = "mug"]

\* commit_crimes from the test of its first loop: to mugging once the
\* shoplift threshold is met, to sleep otherwise.
commit_crimes_shop(s) ==
    IF has_shoplift_threshold(s)
    THEN commit_crimes_mug(set_all_to_commit_crime(s, crimes_MUG))
    ELSE [s EXCEPT !.pc = "shop"]

\* commit_crimes from its call to its first suspension or its end.
commit_crimes(s) == commit_crimes_shop(set_all_to_commit_crime(s, crimes_SHOP))

\* main, from its call to its first suspension or its end.
sleeve_main ==
    /\ sleeve.pc = "start"
    /\ sleeve' = IF ~sleeve.api
                 THEN [sleeve EXCEPT !.pc = "end"]
                 ELSE commit_crimes(sleeve)
    /\ UNCHANGED not_sleeve

\* commit_crimes wakes in its first loop.
sleeve_wake_shop ==
    /\ sleeve.pc = "shop"
    /\ sleeve' = commit_crimes_shop(sleeve)
    /\ UNCHANGED not_sleeve

\* commit_crimes wakes in its second loop.
sleeve_wake_mug ==
    /\ sleeve.pc = "mug"
    /\ sleeve' = commit_crimes_mug(sleeve)
    /\ UNCHANGED not_sleeve

\* The game: the stats of the sleeves change, and the thresholds with them.
SleeveStats ==
    /\ sleeve.pc # "end"
    /\ \E shop, mug \in BOOLEAN :
            /\ <<shop, mug>> # <<sleeve.shop, sleeve.mug>>
            /\ sleeve' = [sleeve EXCEPT !.shop = shop, !.mug = mug]
    /\ UNCHANGED not_sleeve

InitSleeve ==
    /\ HgwIdle
    /\ TriangleIdle
    /\ AugIdle
    /\ ChainIdle /\ DaemonIdle /\ ProgIdle /\ KillIdle /\ UpgIdle
    /\ HomeIdle /\ MoneyIdle
    /\ sleeve \in [pc : {"start"}, api : BOOLEAN,
                    task : [all_sleeves -> SleeveTasks],
                    shop : BOOLEAN, mug : BOOLEAN, calls : {<<>>}]

NextSleeve == sleeve_main \/ sleeve_wake_shop \/ sleeve_wake_mug \/ SleeveStats

SpecSleeve == InitSleeve /\ [][NextSleeve]_vars

\* The place of a crime in the order shoplift, mug, homicide.
CrimeRank(c) ==
    IF c = crimes_SHOP THEN 1 ELSE IF c = crimes_MUG THEN 2 ELSE 3

\* The calls of ns.sleeve.setToCommitCrime made in the step.
NewCrimeCalls == {sleeve'.calls[k] : k \in (Len(sleeve.calls) + 1)..Len(sleeve'.calls)}

\* C24: the sleeves are set to mug only in a step that observes the
\* shoplift threshold met and to homicide only in a step that observes the
\* mug threshold met, mugging having been assigned before; the crimes
\* assigned never go back in the order shoplift, mug, homicide; every
\* assignment is to all sleeves; and without the Sleeve API no sleeve is
\* assigned.
C24_CrimesInOrder ==
    [][/\ \A c \in NewCrimeCalls :
            /\ c.crime = crimes_MUG => sleeve.shop
            /\ c.crime = crimes_KILL =>
                    /\ sleeve.mug
                    /\ \E k \in 1..Len(sleeve'.calls) :
                            sleeve'.calls[k].crime = crimes_MUG
       /\ \A i, j \in 1..Len(sleeve'.calls) :
            i < j => CrimeRank(sleeve'.calls[i].crime)
                        <= CrimeRank(sleeve'.calls[j].crime)
       /\ sleeve'.calls # <<>> => sleeve'.calls[1].crime = crimes_SHOP
       /\ ~sleeve.api => sleeve'.calls = <<>> /\ sleeve'.task = sleeve.task]_vars

\* With the Sleeve API, the sleeves that were idle went through
\* shoplifting and mugging to homicide, and the shoplift threshold is no
\* longer met.
C24_Witness ==
    /\ sleeve.api
    /\ sleeve.pc = "end"
    /\ Len(sleeve.calls) = 3 * NumSleeves
    /\ \A i \in all_sleeves : sleeve.task[i] = crimes_KILL
    /\ ~sleeve.shop

----------------------------------------------------------------------------
(* chain/misc.js (src/src/chain/misc.js, lines 1 to 80): main.  The code   *)
(* between two calls of ns.sleep is one step.  The scripts on home start   *)
(* and stop on their own between the steps.                                *)

\* const gang_script
gang_script == <<"/gang/go.js", "/gang/slum-snakes.js", "/gang/dead-speakers.js">>

\* const script
script == <<"/corporation/corp.js", "/singularity/daemon.js",
            "/singularity/int-farm.js", "/sleeve/cc.js", gang_script[1]>>

\* The script main launches after its loop.
program_js == "/singularity/program.js"

\* The elements of an array.
Range(f) == {f[i] : i \in DOMAIN f}

\* The gang scripts running on home.
GangRunning(c) == c.home \cap Range(gang_script)

\* exec(ns, s): the script runs on home, and the call is recorded with the
\* gang scripts that were running when it was made.
chain_exec(c, s) ==
    [c EXCEPT !.home = @ \cup {s},
              !.execs = Append(@, [script |-> s, gang |-> GangRunning(c)])]

\* script.forEach((s) => exec(ns, s))
RECURSIVE chain_exec_all(_, _)
chain_exec_all(c, todo) ==
    IF todo = <<>> THEN c
    ELSE chain_exec_all(chain_exec(c, Head(todo)), Tail(todo))

\* One turn of the loop of main up to ns.sleep: is_running tells whether
\* ns.scriptRunning(s, home) held for one of the gang scripts.
chain_poll(c) ==
    [c EXCEPT !.is_running = (\E s \in Range(gang_script) : s \in c.home),
              !.pc = "sleep"]

\* main from its call to its first suspension.
chain_main ==
    /\ chain.pc = "start"
    /\ chain' = chain_poll(chain_exec_all(chain, script))
    /\ UNCHANGED not_chain

\* ns.sleep(wait_t.SECOND) returns: the loop is tested, and main either
\* polls again or launches program.js and ends.
chain_wake ==
    /\ chain.pc = "sleep"
    /\ chain' = IF chain.is_running
                THEN chain_poll(chain)
                ELSE [chain_exec(chain, program_js) EXCEPT !.pc = "end"]
    /\ UNCHANGED not_chain

\* A gang script is started on home.
GangStarts ==
    /\ \E s \in Range(gang_script) \ chain.home :
            chain' = [chain EXCEPT !.home = @ \cup {s}]
    /\ UNCHANGED not_chain

\* A script running on home ends.
ScriptStops ==
    /\ \E s \in chain.home : chain' = [chain EXCEPT !.home = @ \ {s}]
    /\ UNCHANGED not_chain

InitChain ==
    /\ HgwIdle
    /\ TriangleIdle
    /\ AugIdle
    /\ SleeveIdle /\ DaemonIdle /\ ProgIdle /\ KillIdle /\ UpgIdle
    /\ HomeIdle /\ MoneyIdle
    /\ chain \in [pc : {"start"}, is_running : {TRUE},
                   home : SUBSET Range(gang_script), execs : {<<>>}]

NextChain == chain_main \/ chain_wake \/ GangStarts \/ ScriptStops

SpecChain == InitChain /\ [][NextChain]_vars

\* The launches of program.js.
ProgramLaunches ==
    {k \in 1..Len(chain.execs) : chain.execs[k].script = program_js}

\* C25: program.js is launched at most once, once when main has ended, and
\* no gang script was running on home at the moment of the launch.
C25_LaunchWithNoGangScript ==
    /\ Cardinality(ProgramLaunches) <= 1
    /\ chain.pc = "end" => Cardinality(ProgramLaunches) = 1
    /\ \A k \in ProgramLaunches : chain.execs[k].gang = {}

----------------------------------------------------------------------------
(* singularity/daemon.js (src/src/singularity/home.js, lines 190 to 244):  *)
(* main and destroy.  The code between two suspensions is one step.  The   *)
(* Hack stat of the player rises, and root access to the server can be     *)
(* gained, between the steps.                                              *)

\* The highest Hack stat of the player and of the server's requirement.
MaxHackStat == 3

\* The test of The Red Pill that holds whatever is installed.
has_red_pill_any(d) == TRUE

\* augmentation.includes(augment.TRP)
has_red_pill(d) == d.trp

\* What destroy does once both loops are left: its assertions, then
\* join_all_factions, connect_to and ns.singularity.installBackdoor.
destroy_backdoor(d) ==
    IF d.hack >= d.req /\ d.root
    THEN [d EXCEPT !.pc = "end",
                   !.acts = @ \cup {"join_all_factions", "connect_to",
                                    "installBackdoor"}]
    ELSE [d EXCEPT !.pc = "failed"]

\* destroy from the test of its second loop.
destroy_root(d) ==
    IF ~d.root THEN [d EXCEPT !.pc = "root"] ELSE destroy_backdoor(d)

\* destroy from the test of its first loop; seen tells that the Hack stat
\* was observed to be at least the hacking skill the server requires.
destroy_hack(d) ==
    IF d.hack < d.req
    THEN [d EXCEPT !.pc = "hack"]
    ELSE destroy_root([d EXCEPT !.seen = TRUE])

\* main, from its call to its first suspension or its end.
daemon_main ==
    /\ daemon.pc = "start"
    /\ daemon' = IF ~has_red_pill(daemon)
                 THEN [daemon EXCEPT !.pc = "end"]
                 ELSE destroy_hack(daemon)
    /\ UNCHANGED not_daemon

\* ns.sleep returns in the first loop of destroy.
daemon_wake_hack ==
    /\ daemon.pc = "hack"
    /\ daemon' = destroy_hack(daemon)
    /\ UNCHANGED not_daemon

\* ns.sleep returns in the second loop of destroy: server.gain_root_access
\* is called and awaited.
daemon_wake_root ==
    /\ daemon.pc = "root"
    /\ daemon' = [daemon EXCEPT !.pc = "gain",
                                !.acts = @ \cup {"gain_root_access"}]
    /\ UNCHANGED not_daemon

\* server.gain_root_access returns, having gained root access or not:
\* destroy goes on from the test of its second loop, on the state of the
\* game at that moment.
daemon_gain_returns ==
    /\ daemon.pc = "gain"
    /\ \E gained \in BOOLEAN :
            daemon' = destroy_root([daemon EXCEPT !.root = @ \/ gained])
    /\ UNCHANGED not_daemon

\* The game: the Hack stat of the player rises.
PlayerHackRises ==
    /\ daemon.pc \in {"start", "hack", "root", "gain"}
    /\ \E h \in (daemon.hack + 1)..MaxHackStat :
            daemon' = [daemon EXCEPT !.hack = h]
    /\ UNCHANGED not_daemon

\* The game: another script gains root access to the server.
RootGained ==
    /\ daemon.pc \in {"start", "hack", "root", "gain"}
    /\ ~daemon.root
    /\ daemon' = [daemon EXCEPT !.root = TRUE]
    /\ UNCHANGED not_daemon

InitDaemon ==
    /\ HgwIdle
    /\ TriangleIdle
    /\ AugIdle
    /\ SleeveIdle /\ ChainIdle /\ ProgIdle /\ KillIdle /\ UpgIdle
    /\ HomeIdle /\ MoneyIdle
    /\ daemon \in [pc : {"start"}, trp : BOOLEAN, hack : 0..MaxHackStat,
                    req : 1..MaxHackStat, root : BOOLEAN, seen : {FALSE},
                    acts : {{}}]

NextDaemon ==
    \/ daemon_main
    \/ daemon_wake_hack
    \/ daemon_wake_root
    \/ daemon_gain_returns
    \/ PlayerHackRises
    \/ RootGained

SpecDaemon == InitDaemon /\ [][NextDaemon]_vars

\* C26: the backdoor is installed only with The Red Pill installed, the
\* Hack stat observed to be at least what the server requires and root
\* access to the server; without The Red Pill the script ends at once and
\* does nothing.
C26_BackdoorOnlyWhenReady ==
    [][/\ "installBackdoor" \in daemon'.acts =>
            /\ daemon.trp
            /\ daemon'.seen
            /\ daemon'.hack >= daemon'.req
            /\ daemon'.root
       /\ ~daemon.trp =>
            /\ daemon'.acts = {}
            /\ daemon'.pc \in {"start", "end"}
            /\ daemon'.root = daemon.root \/ daemon'.pc = "start"]_vars

\* With The Red Pill installed, the script waited for the Hack stat and
\* for root access, called gain_root_access and installed the backdoor.
C26_Witness ==
    /\ daemon.trp
    /\ daemon.pc = "end"
    /\ daemon.acts = {"gain_root_access", "join_all_factions", "connect_to",
                      "installBackdoor"}
    /\ daemon.hack > daemon.req

----------------------------------------------------------------------------
(* singularity/program.js (src/07/lib/singularity.augmentation.js, lines   *)
(* 302 to 460): main, buy_all_programs, buy_tor_router, buy_programs and   *)
(* cheapest.  The code between two suspensions is one step; raise_hack and *)
(* work are counted in the ns.sleep that follows them.  Money is counted   *)
(* in units of 100,000 dollars and changes between the steps.              *)

\* How many port openers the list popen has.
NumProg == 3
\* The most money of the player.
MaxCash == 3

\* const cost = 200000 of buy_tor_router, the price of the Tor router.
tor_cost == 2

\* The list popen: the port openers, in the order of the list.
popen == 1..NumProg

\* ns.singularity.getDarkwebPrograms(): the port openers and one more
\* program.
DarkwebPrograms == 0..NumProg

\* The costs ns.singularity.getDarkwebProgramCost can give: rising along
\* the list, falling, or all the same.
ProgCosts ==
    {[q \in DarkwebPrograms |-> q + 1],
     [q \in DarkwebPrograms |-> NumProg + 1 - q],
     [q \in DarkwebPrograms |-> 1]}

\* cheapest that returns the last program of the list.
cheapest_last(program, cost) ==
    CHOOSE q \in program : \A r \in program : r <= q

\* The program cheapest(ns, program) returns: the first, in the order of
\* the list, of the least expensive ones.
cheapest(program, cost) ==
    CHOOSE q \in program :
        \A r \in program :
            \/ cost[q] < cost[r]
            \/ cost[q] = cost[r] /\ q <= r

\* ns.singularity.purchaseTor(): the game sells the router when the money
\* is there; the router is owned afterwards exactly if the call returns
\* true.
purchaseTor(g) ==
    IF g.tor THEN g
    ELSE IF g.money >= tor_cost
    THEN [g EXCEPT !.tor = TRUE, !.money = @ - tor_cost]
    ELSE g

\* ns.singularity.purchaseProgram(p) for the program chosen: the purchase
\* is recorded with the money, the programs left to buy and the router as
\* they were.  The game is not taken to refuse a program for want of money
\* or of the router.
purchaseProgram(g) ==
    LET c == g.cost[g.cur]
    IN  [g EXCEPT !.has = @ \cup {g.cur},
                  !.money = IF @ >= c THEN @ - c ELSE 0,
                  !.log = Append(@, [p |-> g.cur, cost |-> c, money |-> g.money,
                                     left |-> g.todo, tor |-> g.tor])]

RECURSIVE buy_programs_loop(_)
RECURSIVE buy_programs_wait(_)

\* buy_programs from the test of its inner loop, with the program chosen:
\* to sleep while the money is short, else the purchase and the next turn
\* of the outer loop.
buy_programs_wait(g) ==
    IF g.money < g.cost[g.cur]
    THEN [g EXCEPT !.pc = "money"]
    ELSE buy_programs_loop(
            [purchaseProgram(g) EXCEPT !.todo = @ \ {g.cur}, !.cur = -1])

\* buy_programs from the test of its outer loop; at its end main launches
\* the next script and ends.
buy_programs_loop(g) ==
    IF g.todo = {}
    THEN [g EXCEPT !.pc = "end"]
    ELSE buy_programs_wait([g EXCEPT !.cur = cheapest(g.todo, g.cost)])

\* buy_programs(ns, program) from its call.
buy_programs(g, program) ==
    LET missing == {q \in program : q \notin g.has}
    IN  IF missing = {}
        THEN [g EXCEPT !.pc = "end"]
        ELSE buy_programs_loop([g EXCEPT !.todo = missing])

\* buy_all_programs once buy_tor_router has returned.
buy_all_programs(g) ==
    IF {q \in DarkwebPrograms : q \notin g.has} = {}
    THEN [g EXCEPT !.pc = "end"]
    ELSE buy_programs(g, popen)

\* buy_tor_router from the test of its loop.
buy_tor_router(g) ==
    LET g1 == purchaseTor(g)
    IN  IF ~g1.tor THEN [g1 EXCEPT !.pc = "tor"] ELSE buy_all_programs(g1)

\* main from its call to its first suspension or its end.
prog_main ==
    /\ prog.pc = "start"
    /\ prog' = buy_tor_router(prog)
    /\ UNCHANGED not_prog

\* ns.sleep returns in buy_tor_router.
prog_wake_tor ==
    /\ prog.pc = "tor"
    /\ prog' = buy_tor_router(prog)
    /\ UNCHANGED not_prog

\* ns.sleep returns in buy_programs.
prog_wake_money ==
    /\ prog.pc = "money"
    /\ prog' = buy_programs_wait(prog)
    /\ UNCHANGED not_prog

\* The game: the player earns or spends money.
MoneyChanges ==
    /\ prog.pc \in {"start", "tor", "money"}
    /\ \E m \in (0..MaxCash) \ {prog.money} :
            prog' = [prog EXCEPT !.money = m]
    /\ UNCHANGED not_prog

InitProg ==
    /\ HgwIdle
    /\ TriangleIdle
    /\ AugIdle
    /\ SleeveIdle /\ ChainIdle /\ DaemonIdle /\ KillIdle /\ UpgIdle
    /\ HomeIdle /\ MoneyIdle
    /\ prog \in [pc : {"start"}, tor : BOOLEAN, has : SUBSET DarkwebPrograms,
                  money : 0..MaxCash, cost : ProgCosts, todo : {{}},
                  cur : {-1}, log : {<<>>}]

NextProg == prog_main \/ prog_wake_tor \/ prog_wake_money \/ MoneyChanges

SpecProg == InitProg /\ [][NextProg]_vars

\* C27: every program purchased was purchased with the Tor router owned
\* and with money at least its cost, was the first of the least expensive
\* programs left to buy, and had not been purchased before; and when the
\* script has ended no port opener is missing.
C27_CheapestFirstAfterTor ==
    /\ \A k \in 1..Len(prog.log) :
            LET e == prog.log[k]
            IN  /\ e.tor
                /\ e.money >= e.cost
                /\ e.p \in e.left
                /\ e.cost = prog.cost[e.p]
                /\ \A q \in e.left : prog.cost[q] >= e.cost
                /\ \A j \in 1..(k - 1) : prog.log[j].p # e.p
    /\ prog.log # <<>> => prog.tor
    /\ prog.pc = "end" => popen \subseteq prog.has

\* With costs that fall along the list and no port opener owned, the
\* script bought all port openers, from the last of the list to the first,
\* and ended.
C27_Witness ==
    /\ prog.pc = "end"
    /\ prog.cost[1] > prog.cost[NumProg]
    /\ Len(prog.log) = NumProg
    /\ \A k \in 1..NumProg : prog.log[k].p = NumProg + 1 - k
    /\ prog.log[1].left = popen

----------------------------------------------------------------------------
(* kill-script.js (src/src/kill-script.js): main, which runs in one step.  *)
(* A server is named by its class and a number.                            *)

\* How many servers can be purchased, how many world servers there are and
\* how many arguments the command line can have.
NumPserv == 2
NumWorld == 2
MaxArgs == 2

\* const error_msg
error_msg == "Must provide one command line argument: pserv | world"

\* The servers: home, the servers that can be purchased, the world servers.
\* Scripts run on home, on the servers purchased and on the world servers.
HomeServer == <<"home", 0>>
PservNames == {<<"pserv", i>> : i \in 1..NumPserv}
WorldServers == {<<"world", i>> : i \in 1..NumWorld}

\* What an argument of the command line can be.
ArgValues == {"pserv", "world", "home", "PSERV"}

\* The command lines: up to MaxArgs arguments.
CommandLines == UNION {[1..n -> ArgValues] : n \in 0..MaxArgs}

\* player.pserv(): the purchased servers.
player_pserv(k) == k.pserv

\* network(ns): every server that can be reached from home, home left out.
\* The purchased servers are among them: low_end_servers takes them out of
\* the list with filter_pserv(ns, network(ns)) (src/src/low-end.js, line
\* 142).
network(k) == WorldServers \cup k.pserv

\* ns.hasRootAccess(s)
hasRootAccess(k, s) == s \in k.rooted

\* servers.forEach((s) => ns.killall(s)): the scripts of the servers end,
\* and the calls are recorded.
killall(k, servers) ==
    [k EXCEPT !.running = @ \ servers, !.killed = @ \cup servers]

\* ns.tprint(error_msg)
tprint(k, msg) == [k EXCEPT !.printed = Append(@, msg)]

\* main
kill_script(k) ==
    IF Len(k.args) < 1
    THEN tprint(k, error_msg)
    ELSE LET stype == k.args[1]
         IN  IF stype = "pserv"
             THEN killall(k, player_pserv(k))
             ELSE IF stype = "world"
             THEN killall(k, {srv \in network(k) : hasRootAccess(k, srv)})
             ELSE tprint(k, error_msg)

kill_main ==
    /\ kill.pc = "start"
    /\ kill' = [kill_script(kill) EXCEPT !.pc = "end"]
    /\ UNCHANGED not_kill

InitKill ==
    /\ HgwIdle
    /\ TriangleIdle
    /\ AugIdle
    /\ SleeveIdle /\ ChainIdle /\ DaemonIdle /\ ProgIdle /\ UpgIdle
    /\ HomeIdle /\ MoneyIdle
    /\ \E args \in CommandLines, pserv \in SUBSET PservNames,
          world \in SUBSET WorldServers :
        kill = [pc |-> "start", args |-> args, pserv |-> pserv,
                rooted |-> pserv \cup world,
                running |-> {HomeServer} \cup pserv \cup WorldServers,
                killed |-> {}, printed |-> <<>>]

NextKill == kill_main

SpecKill == InitKill /\ [][NextKill]_vars

----------------------------------------------------------------------------
(* choose_upgrade and is_at_limits of singularity/home.js                  *)
(* (src/src/singularity/home.js, lines 30 to 83).  The function is applied *)
(* to a home server of any Cores, RAM and upgrade costs.  Costs are        *)
(* counted in halves of a dollar, so that Math.ceil is a real conversion.  *)
(* The limits home_t.CORE and home_t.RAM are those of core_limit() and     *)
(* ram_limit() of the version of the script in src/README.md.              *)

\* How many Cores above the limit the home server can have, how many
\* doublings its RAM can be away from the limit, and the highest cost of an
\* upgrade, in halves.
CoreOver == 1
RamSteps == 1
MaxUpCost == 3

\* home_t.CORE and home_t.RAM
home_t_CORE == 4
home_t_RAM == 262144

\* The Cores and the RAM the home server can have.
CoreCounts == 1..(home_t_CORE + CoreOver)
RamSizes ==
    {home_t_RAM \div (2 ^ i) : i \in 0..RamSteps}
        \cup {home_t_RAM * (2 ^ i) : i \in 1..RamSteps}

\* is_at_limits(ns)
is_at_limits(h) == h.cores >= home_t_CORE /\ h.ram >= home_t_RAM

\* choose_upgrade(ns) for the home server h: what it returns, or the line
\* of the assertion that fails.
choose_upgrade(h) ==
    LET core_cost == Math_ceil(h.core_cost)
        ram_cost == Math_ceil(h.ram_cost)
    IN  IF is_at_limits(h) THEN [pc |-> "returned", value |-> ""]
        ELSE IF ~h.file THEN [pc |-> "failed", value |-> "assert 51"]
        ELSE IF h.share THEN [pc |-> "returned", value |-> "RAM"]
        ELSE IF core_cost < ram_cost /\ h.cores < home_t_CORE
        THEN [pc |-> "returned", value |-> "Cores"]
        ELSE IF ~(ram_cost <= core_cost \/ h.cores = home_t_CORE)
        THEN [pc |-> "failed", value |-> "assert 64"]
        ELSE IF ~(h.ram < home_t_RAM)
        THEN [pc |-> "failed", value |-> "assert 65"]
        ELSE [pc |-> "returned", value |-> "RAM"]

\* A call of choose_upgrade.
call_choose_upgrade ==
    /\ upg.pc = "start"
    /\ upg' = [upg EXCEPT !.pc = choose_upgrade(upg).pc,
                          !.value = choose_upgrade(upg).value]
    /\ UNCHANGED not_upg

InitUpg ==
    /\ HgwIdle
    /\ TriangleIdle
    /\ AugIdle
    /\ SleeveIdle /\ ChainIdle /\ DaemonIdle /\ ProgIdle /\ KillIdle
    /\ HomeIdle /\ MoneyIdle
    /\ upg \in [pc : {"start"}, value : {""}, cores : CoreCounts,
                 ram : RamSizes, core_cost : 1..MaxUpCost,
                 ram_cost : 1..MaxUpCost, share : BOOLEAN, file : BOOLEAN]

NextUpg == call_choose_upgrade

SpecUpg == InitUpg /\ [][NextUpg]_vars

\* C29: what choose_upgrade returns is "Cores", "RAM" or ""; it is "" exactly
\* when Cores and RAM are both at their limits, "Cores" only with the Cores
\* below their limit and "RAM" only with the RAM below its limit.
C29_ReturnsWhatCanBeUpgraded ==
    upg.pc = "returned" =>
        /\ upg.value \in {"Cores", "RAM", ""}
        /\ upg.value = "" <=> is_at_limits(upg)
        /\ upg.value = "Cores" => upg.cores < home_t_CORE
        /\ upg.value = "RAM" => upg.ram < home_t_RAM

\* C30: no call of choose_upgrade fails one of the two assertions that
\* come before its last return.
C30_AssertionsHold ==
    ~(upg.pc = "failed" /\ upg.value \in {"assert 64", "assert 65"})

----------------------------------------------------------------------------
(* main, upgrade, upgrade_cores and upgrade_ram of singularity/home.js     *)
(* (src/src/singularity/home.js, lines 84 to 176).  homejs.trade is what   *)
(* the trade bot was last told, homejs.execs the scripts main launched,    *)
(* homejs.tries the calls of ns.singularity.upgradeHomeCores and           *)
(* upgradeHomeRam with what each returned, homejs.slept the sleeps of one  *)
(* minute and homejs.returned whether upgrade has returned.  The game      *)
(* decides whether an upgrade succeeds.  trade_bot_stop_buy,               *)
(* trade_bot_resume, exec and choose_hardware_company are not in the       *)
(* source tree: each is taken to return.                                   *)

install_js == "/quack/chain/install.js"

\* The rest of main once upgrade has returned: trade_bot_resume(ns) and
\* exec(ns, "/quack/chain/install.js").
home_main_end(h) ==
    [h EXCEPT !.returned = TRUE,
              !.trade = "resumed",
              !.execs = Append(@, install_js),
              !.pc = "end"]

\* One call of ns.singularity.upgradeHomeCores or upgradeHomeRam that
\* returns ok.
home_try(h, what, ok) ==
    [h EXCEPT !.tries = Append(@, [what |-> what, ok |-> ok])]

\* The first attempt of upgrade_cores or upgrade_ram: the function returns
\* when the attempt succeeds and sleeps one minute when it fails.
upgrade_first(h, what, success) ==
    IF success
    THEN home_main_end(home_try(h, what, TRUE))
    ELSE [home_try(h, what, FALSE) EXCEPT !.pc = "sleep",
                                          !.slept = @ + 1,
                                          !.what = what]

\* main up to await trade_bot_stop_buy(ns).
home_main ==
    /\ homejs.pc = "start"
    /\ homejs' = [homejs EXCEPT !.pc = "stop_buy", !.trade = "stopped"]
    /\ UNCHANGED not_home

\* trade_bot_stop_buy has returned: upgrade up to
\* await choose_hardware_company(ns).
home_upgrade ==
    /\ homejs.pc = "stop_buy"
    /\ homejs' = [homejs EXCEPT !.pc = "shop"]
    /\ UNCHANGED not_home

\* upgrade from ns.singularity.goToLocation(shop) to its end or to the
\* sleep of upgrade_cores or upgrade_ram, and main to its end when upgrade
\* returns.  An assertion that fails ends the script there.
home_at_shop ==
    /\ homejs.pc = "shop"
    /\ \E ok1 \in BOOLEAN, ok2 \in BOOLEAN :
        homejs' =
            IF is_at_limits(homejs)
            THEN home_main_end(
                     home_try(home_try(homejs, "Cores", ok1), "RAM", ok2))
            ELSE IF choose_upgrade(homejs).pc = "failed"
            THEN [homejs EXCEPT !.pc = "failed",
                                !.what = choose_upgrade(homejs).value]
            ELSE IF choose_upgrade(homejs).value = ""
            THEN [homejs EXCEPT !.pc = "failed", !.what = "assert 110"]
            ELSE upgrade_first(homejs, choose_upgrade(homejs).value, ok1)
    /\ UNCHANGED not_home

\* The sleep of one minute is over: the second attempt of upgrade_cores or
\* upgrade_ram, whatever it returns, then the rest of main.
home_wake ==
    /\ homejs.pc = "sleep"
    /\ \E ok \in BOOLEAN :
        homejs' = home_main_end(home_try(homejs, homejs.what, ok))
    /\ UNCHANGED not_home

InitHome ==
    /\ HgwIdle
    /\ TriangleIdle
    /\ AugIdle
    /\ SleeveIdle /\ ChainIdle /\ DaemonIdle /\ ProgIdle /\ KillIdle
    /\ UpgIdle /\ MoneyIdle
    /\ homejs \in [pc : {"start"}, cores : CoreCounts, ram : RamSizes,
                    core_cost : 1..MaxUpCost, ram_cost : 1..MaxUpCost,
                    share : BOOLEAN, file : {TRUE}, trade : {"buying"},
                    execs : {<<>>}, tries : {<<>>}, slept : {0},
                    returned : {FALSE}, what : {""}]

NextHome == home_main \/ home_upgrade \/ home_at_shop \/ home_wake

SpecHome == InitHome /\ [][NextHome]_vars

\* The script is scheduled again after every suspension: each of its
\* awaits is on a call that returns.
FairHome == SpecHome /\ WF_vars(NextHome)

\* C31: in every execution of main, once trade_bot_stop_buy was called the
\* trade bot is eventually resumed and the next script of the load chain
\* launched, exactly once.
C31_EventuallyResumed ==
    (homejs.trade = "stopped")
        ~> (homejs.trade = "resumed" /\ homejs.execs = <<install_js>>)

\* The parts of C31 that are about order and attempts: the trade bot is
\* resumed and the next script launched only after upgrade has returned and
\* never more than once; outside the branch of is_at_limits there are at
\* most two attempts, of the same upgrade, the second after a failed first
\* one and one sleep of a minute, and no sleep without a failed attempt.
C31_OrderAndAttempts ==
    /\ Len(homejs.execs) <= 1
    /\ (homejs.trade = "resumed" \/ homejs.execs # <<>>) => homejs.returned
    /\ homejs.returned <=> homejs.pc = "end"
    /\ ~is_at_limits(homejs) =>
        /\ Len(homejs.tries) <= 2
        /\ homejs.slept = (IF Len(homejs.tries) >= 1 /\ ~homejs.tries[1].ok
                           THEN 1 ELSE 0)
        /\ Len(homejs.tries) = 2 =>
            /\ ~homejs.tries[1].ok
            /\ homejs.tries[2].what = homejs.tries[1].what

----------------------------------------------------------------------------
(* singularity/money.js (src/src/singularity/money.js).  moneyjs.money is  *)
(* the money on home and moneyjs.cost the cost of the next upgrade of the  *)
(* home RAM, both in halves of a dollar, moneyjs.ram the RAM of home and   *)
(* moneyjs.lvl the level of the Source-File of The Singularity, 0 when     *)
(* sf_level returns undefined.  moneyjs.crimes holds the thresholds given  *)
(* to /singularity/crime.js, moneyjs.execs the other scripts main          *)
(* launched, moneyjs.upgraded whether ns.singularity.upgradeHomeRam has    *)
(* returned true and moneyjs.first what main observed before its first     *)
(* test.  The game decides whether crime.js starts, when it ends, what     *)
(* money it leaves and whether an upgrade succeeds.  home_t.RAM_HIGH and   *)
(* home_t.RAM_HUGE are not in the source tree; only their order matters.   *)

\* The highest level of the Source-File, and the most calls of
\* commit_crimes in one run of the model.
MaxSfLevel == 3
MaxCrimes == 3

home_t_RAM_HIGH == 512
home_t_RAM_HUGE == 1024

\* 5 * m.million(), in halves of a dollar
five_million == 10000000

go_js == "go.js"
chain_misc_js == "/chain/misc.js"

SfLevels == 0..MaxSfLevel
HomeRams == {home_t_RAM_HIGH \div 2, home_t_RAM_HIGH, home_t_RAM_HUGE}
PlayerMoneys ==
    (0..(2 * MaxUpCost)) \cup {five_million + 2 * d : d \in {-1, 0, 1}}

\* choose_threshold(ns)
choose_threshold(m) ==
    IF m.ram < home_t_RAM_HIGH THEN Math_ceil(m.cost) ELSE five_million

\* is_upgrade_home_ram(ns)
is_upgrade_home_ram(m) ==
    IF m.lvl \in {0, 1, 2} THEN m.ram < home_t_RAM_HUGE
    ELSE m.ram < home_t_RAM_HIGH

\* The test of main that leads to load_chain without any crime, as it would
\* be if it were never true.
skip_crimes_never(m) == FALSE

\* The test of main that leads to load_chain without any crime.
skip_crimes(m) ==
    m.money > choose_threshold(m) /\ ~is_upgrade_home_ram(m)

\* load_chain(ns) and the end of main.
load_chain(m) ==
    [m EXCEPT !.execs = Append(@, chain_misc_js), !.pc = "end"]

\* commit_crimes(ns, threshold) up to its first sleep, or to its end when
\* crime.js is not running after ns.exec: started is whether the game
\* started the script; next is where main goes on after the call.
commit_crimes_money(m, threshold, started, next) ==
    IF ~(threshold > 0) THEN [m EXCEPT !.pc = "failed"]
    ELSE [m EXCEPT !.crimes = Append(@, threshold),
                   !.running = started,
                   !.pc = IF started THEN "crime" ELSE next,
                   !.next = next]

\* The loop while (!success) of main at one of its tests: success is what
\* the last call of ns.singularity.upgradeHomeRam() returned, started
\* whether the game starts crime.js.
upgrade_loop(m, success, started) ==
    IF success
    THEN [m EXCEPT !.upgraded = TRUE,
                   !.ram = @ * 2,
                   !.execs = Append(@, go_js),
                   !.pc = "end"]
    ELSE commit_crimes_money(m, m.cost, started, "retry")

\* main after a call of commit_crimes has returned: after the first call
\* the test of is_upgrade_home_ram and the first attempt to upgrade, after
\* a call of the loop the next attempt.
after_crimes(m, success, started) ==
    IF m.pc = "first" /\ ~is_upgrade_home_ram(m)
    THEN load_chain(m)
    ELSE upgrade_loop(m, success, started)

\* main up to its first suspension.
money_main ==
    /\ moneyjs.pc = "start"
    /\ \E started \in BOOLEAN :
        LET m == [moneyjs EXCEPT
                      !.first = [money |-> moneyjs.money,
                                 threshold |-> choose_threshold(moneyjs),
                                 need |-> is_upgrade_home_ram(moneyjs)]]
        IN  moneyjs' =
                IF skip_crimes(m) THEN load_chain(m)
                ELSE commit_crimes_money(m, choose_threshold(m), started,
                                         "first")
    /\ UNCHANGED not_money

\* Where main goes on without a suspension: crime.js was not running after
\* ns.exec, so that commit_crimes returned at once.
money_continue ==
    /\ moneyjs.pc \in {"first", "retry"}
    /\ \E success \in BOOLEAN, started \in BOOLEAN :
        moneyjs' = after_crimes(moneyjs, success, started)
    /\ Len(moneyjs'.crimes) <= MaxCrimes
    /\ UNCHANGED not_money

\* The sleep of commit_crimes is over and crime.js has ended: the rest of
\* main up to its next suspension.  While crime.js runs the loop sleeps
\* again.
money_wake ==
    /\ moneyjs.pc = "crime"
    /\ ~moneyjs.running
    /\ \E success \in BOOLEAN, started \in BOOLEAN :
        moneyjs' =
            after_crimes([moneyjs EXCEPT !.pc = moneyjs.next], success,
                         started)
    /\ Len(moneyjs'.crimes) <= MaxCrimes
    /\ UNCHANGED not_money

\* /singularity/crime.js ends and leaves some money on home.
CrimeEnds ==
    /\ moneyjs.pc = "crime"
    /\ moneyjs.running
    /\ \E money_left \in PlayerMoneys :
        moneyjs' = [moneyjs EXCEPT !.running = FALSE, !.money = money_left]
    /\ UNCHANGED not_money

InitMoney ==
    /\ HgwIdle
    /\ TriangleIdle
    /\ AugIdle
    /\ SleeveIdle /\ ChainIdle /\ DaemonIdle /\ ProgIdle /\ KillIdle
    /\ UpgIdle /\ HomeIdle
    /\ moneyjs \in [pc : {"start"}, money : PlayerMoneys,
                     cost : 1..MaxUpCost, ram : HomeRams, lvl : SfLevels,
                     crimes : {<<>>}, execs : {<<>>}, running : {FALSE},
                     upgraded : {FALSE}, next : {""},
                     first : {[money |-> 0, threshold |-> 0,
                               need |-> FALSE]}]

NextMoney == money_main \/ money_continue \/ money_wake \/ CrimeEnds

SpecMoney == InitMoney /\ [][NextMoney]_vars

\* C32: a run of main that has ended launched exactly one successor,
\* go.js when an upgrade of the home RAM succeeded in the run and
\* /chain/misc.js when none did, and it started no crime when at its start
\* the money exceeded the threshold and no upgrade of the home RAM was
\* needed.
C32_OneSuccessor ==
    moneyjs.pc = "end" =>
        /\ Len(moneyjs.execs) = 1
        /\ moneyjs.execs[1] = (IF moneyjs.upgraded THEN go_js
                               ELSE chain_misc_js)
        /\ (moneyjs.first.money > moneyjs.first.threshold
                /\ ~moneyjs.first.need) => moneyjs.crimes = <<>>

\* A run that ended with go.js after a first attempt to upgrade failed:
\* crimes for the threshold, then crimes for the cost of the upgrade.
C32_Witness ==
    /\ moneyjs.pc = "end"
    /\ moneyjs.upgraded
    /\ moneyjs.execs = <<go_js>>
    /\ Len(moneyjs.crimes) = 2
    /\ moneyjs.crimes[2] = moneyjs.cost

----------------------------------------------------------------------------
(* Termination of the preparation loops PservHGW.prep_wg                   *)
(* (src/src/chain/misc.js, lines 572 to 588) and prep                      *)
(* (src/src/sleeve/money.js, lines 226 to 241).  The worker hosts start    *)
(* with any of a few amounts of free RAM and no other scheduler takes RAM  *)
(* from them.  Every process that was started ends, and a weaken or grow   *)
(* that ends moves the target as SecAfter and MoneyAfter say.              *)

\* The RAM that can be free on the purchased server when prep_wg is
\* called: none, not enough for one thread, enough for one thread, all.
PservFree ==
    {0, ScriptRam(SCRIPT_WEAKEN) - 1, ScriptRam(SCRIPT_WEAKEN), PservRam}

InitPrepFree ==
    /\ InitTarget
    /\ \E ram \in PservFree, room \in BOOLEAN :
        free = [h \in Hosts |-> IF h = phost THEN ram
                                ELSE IF room THEN MaxRamOf(h) ELSE 0]
    /\ running = {}
    /\ batch = NoBatch
    /\ wg = WgStart
    /\ bot = BotStart
    /\ admin = Hosts
    /\ TriangleIdle
    /\ AugIdle
    /\ ScriptsIdle

NextPrepFree ==
    \/ prep_wg
    \/ PservHGW_hgw_action
    \/ prep
    \/ hgw_action
    \/ Finish

\* The two loops are scheduled again after every sleep, and every process
\* in flight ends.
FairPrep ==
    /\ InitPrepFree
    /\ [][NextPrepFree]_vars
    /\ WF_vars(prep_wg)
    /\ WF_vars(PservHGW_hgw_action)
    /\ WF_vars(prep)
    /\ WF_vars(hgw_action)
    /\ WF_vars(Finish)

\* Whether a thread of weaken.js and of grow.js fits on the purchased
\* server and on a server of the botnet.
HasRoom ==
    /\ can_run_script(free[phost], SCRIPT_WEAKEN)
    /\ \E h \in Hosts \ {phost} : can_run_script(free[h], SCRIPT_WEAKEN)

\* C33: prep_wg and prep eventually return, from every state of the target
\* and with any amount of RAM free on the worker hosts.
C33_PrepReturns == <>(wg.pc = "done" /\ bot.pc = "done")

\* The loops do return when they start with room for a thread on the
\* purchased server and on the botnet.
C33_PrepReturnsWithRoom == HasRoom => <>(wg.pc = "done" /\ bot.pc = "done")
====
